---------------------------- MODULE Spec2Model ----------------------------
(***************************************************************************)
(* A model of the cart scraping and verification logic of the Playwright   *)
(* page objects: CartPage (src/unnamed/part_001, the multi-selector        *)
(* variant, and the fixed-selector variant kept in                         *)
(* src/pages/ContactPage.ts) and the numeric helpers in                    *)
(* src/utils/logger.ts.                                                    *)
(*                                                                         *)
(* Texts are sequences of one-character strings.  A JavaScript number is   *)
(* an IEEE 754 binary64 value, kept exactly as sign * m * 2^(-t) with m a  *)
(* natural number of arbitrary size (a little-endian sequence of limbs),   *)
(* and every arithmetic operation rounds to nearest, ties to even, as the  *)
(* language does.  A decimal (what a text displays) is kept exactly as     *)
(* n / 10^s.                                                               *)
(***************************************************************************)
EXTENDS Integers, Sequences, FiniteSets, TLC

(***************************************************************************)
(* Natural numbers of arbitrary size.                                      *)
(***************************************************************************)
Base == 2^15

RECURSIVE Pow2(_)
Pow2(n) == IF n = 0 THEN 1 ELSE 2 * Pow2(n - 1)

RECURSIVE Pow10(_)
Pow10(n) == IF n = 0 THEN 1 ELSE 10 * Pow10(n - 1)

Max(a, b) == IF a >= b THEN a ELSE b

Limb(a, i) == IF i <= Len(a) THEN a[i] ELSE 0

Rest(a) == IF a = <<>> THEN <<>> ELSE Tail(a)

RECURSIVE BNorm(_)
BNorm(a) ==
  IF a = <<>> THEN a
  ELSE IF a[Len(a)] = 0 THEN BNorm(SubSeq(a, 1, Len(a) - 1)) ELSE a

RECURSIVE BFromInt(_)
BFromInt(n) == IF n = 0 THEN <<>> ELSE <<n % Base>> \o BFromInt(n \div Base)

RECURSIVE BToInt(_)
BToInt(a) == IF a = <<>> THEN 0 ELSE a[1] + Base * BToInt(Tail(a))

RECURSIVE BAddC(_, _, _)
BAddC(a, b, c) ==
  IF a = <<>> /\ b = <<>> THEN (IF c = 0 THEN <<>> ELSE <<c>>)
  ELSE LET s == Limb(a, 1) + Limb(b, 1) + c
       IN  <<s % Base>> \o BAddC(Rest(a), Rest(b), s \div Base)

BAdd(a, b) == BAddC(a, b, 0)

\* a - b - c for a >= b + c
RECURSIVE BSubC(_, _, _)
BSubC(a, b, c) ==
  IF a = <<>> THEN <<>>
  ELSE LET d == a[1] - Limb(b, 1) - c
       IN  IF d < 0 THEN <<d + Base>> \o BSubC(Tail(a), Rest(b), 1)
           ELSE <<d>> \o BSubC(Tail(a), Rest(b), 0)

BSub(a, b) == BNorm(BSubC(a, b, 0))

\* -1, 0, 1 as a < b, a = b, a > b (both without leading zero limbs)
RECURSIVE BCmpFrom(_, _, _)
BCmpFrom(a, b, i) ==
  IF i = 0 THEN 0
  ELSE IF a[i] < b[i] THEN -1
  ELSE IF a[i] > b[i] THEN 1
  ELSE BCmpFrom(a, b, i - 1)

BCmp(a, b) ==
  IF Len(a) < Len(b) THEN -1
  ELSE IF Len(a) > Len(b) THEN 1
  ELSE BCmpFrom(a, b, Len(a))

\* a * c + k for 0 <= c < Base
RECURSIVE BMulSmallC(_, _, _)
BMulSmallC(a, c, k) ==
  IF a = <<>> THEN BFromInt(k)
  ELSE LET p == a[1] * c + k
       IN  <<p % Base>> \o BMulSmallC(Tail(a), c, p \div Base)

BMulSmall(a, c) == BNorm(BMulSmallC(a, c, 0))

RECURSIVE BMul(_, _)
BMul(a, b) ==
  IF a = <<>> \/ b = <<>> THEN <<>>
  ELSE BAdd(BMulSmall(a, b[1]),
            LET r == BMul(a, Tail(b)) IN IF r = <<>> THEN <<>> ELSE <<0>> \o r)

\* <<quotient, remainder>> of a by 0 < d < Base, from the top limb down
RECURSIVE BDivSmallFrom(_, _, _, _)
BDivSmallFrom(a, d, i, r) ==
  IF i = 0 THEN <<<<>>, r>>
  ELSE LET cur  == r * Base + a[i]
           rest == BDivSmallFrom(a, d, i - 1, cur % d)
       IN  <<rest[1] \o <<cur \div d>>, rest[2]>>

BDivMod(a, d) ==
  LET qr == BDivSmallFrom(a, d, Len(a), 0) IN <<BNorm(qr[1]), qr[2]>>

Zeros(n) == [i \in 1..n |-> 0]

BShl(a, n) ==
  IF a = <<>> THEN <<>>
  ELSE Zeros(n \div 15) \o BMulSmall(a, Pow2(n % 15))

BShr(a, n) ==
  IF n \div 15 >= Len(a) THEN <<>>
  ELSE BDivMod(SubSeq(a, n \div 15 + 1, Len(a)), Pow2(n % 15))[1]

RECURSIVE IntBitLen(_)
IntBitLen(n) == IF n = 0 THEN 0 ELSE 1 + IntBitLen(n \div 2)

BBitLen(a) == IF a = <<>> THEN 0 ELSE 15 * (Len(a) - 1) + IntBitLen(a[Len(a)])

BIsOdd(a) == a # <<>> /\ a[1] % 2 = 1

(***************************************************************************)
(* binary64 numbers: sign * m * 2^(-t), m = 0 or 2^52 <= m < 2^53.         *)
(* Subnormals and overflow are far from the magnitudes the cart holds.     *)
(***************************************************************************)
Precision == 53

NaN == [nan |-> TRUE, neg |-> FALSE, m |-> <<>>, t |-> 0]

Zero == [nan |-> FALSE, neg |-> FALSE, m |-> <<>>, t |-> 0]

\* the binary64 nearest to (-1)^neg * n * 2^(-t), ties to even
RoundBin(neg, n, t) ==
  LET len == BBitLen(n) IN
  IF n = <<>> THEN Zero
  ELSE IF len <= Precision
  THEN [nan |-> FALSE, neg |-> neg, m |-> BShl(n, Precision - len),
        t |-> t + (Precision - len)]
  ELSE LET s    == len - Precision
           q    == BShr(n, s)
           rem  == BSub(n, BShl(q, s))
           half == BShl(<<1>>, s - 1)
           c    == BCmp(rem, half)
           up   == c = 1 \/ (c = 0 /\ BIsOdd(q))
           q1   == IF up THEN BAdd(q, <<1>>) ELSE q
       IN  IF BBitLen(q1) > Precision
           THEN [nan |-> FALSE, neg |-> neg, m |-> BShr(q1, 1), t |-> t - s - 1]
           ELSE [nan |-> FALSE, neg |-> neg, m |-> q1, t |-> t - s]

\* the binary64 nearest to (-1)^neg * n / d, for a bignum n and 0 < d < Base
RoundRatio(neg, n, d) ==
  IF n = <<>> THEN Zero
  ELSE LET sh  == Precision + IntBitLen(d) + 1
           qr  == BDivMod(BShl(n, sh), d)
           \* two more bits: the remainder's half bit and a sticky bit
           q2  == BAdd(BShl(qr[1], 1), IF qr[2] = 0 THEN <<>> ELSE <<1>>)
       IN  RoundBin(neg, q2, sh + 1)

DIsZero(x) == ~x.nan /\ x.m = <<>>

DNeg(x) == IF x.nan \/ x.m = <<>> THEN x ELSE [x EXCEPT !.neg = ~x.neg]

DAbs(x) == IF x.nan THEN x ELSE [x EXCEPT !.neg = FALSE]

DAdd(x, y) ==
  IF x.nan \/ y.nan THEN NaN
  ELSE LET T == Max(x.t, y.t)
           A == BShl(x.m, T - x.t)
           B == BShl(y.m, T - y.t)
           c == BCmp(A, B)
       IN  IF x.neg = y.neg THEN RoundBin(x.neg, BAdd(A, B), T)
           ELSE IF c = 0 THEN Zero
           ELSE IF c = 1 THEN RoundBin(x.neg, BSub(A, B), T)
           ELSE RoundBin(y.neg, BSub(B, A), T)

DSub(x, y) == DAdd(x, DNeg(y))

DMul(x, y) ==
  IF x.nan \/ y.nan THEN NaN
  ELSE RoundBin(x.neg # y.neg, BMul(x.m, y.m), x.t + y.t)

\* x < y; false when either is NaN
DLess(x, y) ==
  /\ ~x.nan /\ ~y.nan
  /\ LET T == Max(x.t, y.t)
         A == BShl(x.m, T - x.t)
         B == BShl(y.m, T - y.t)
         c == BCmp(A, B)
     IN  IF x.neg /\ ~y.neg THEN TRUE
         ELSE IF ~x.neg /\ y.neg THEN FALSE
         ELSE IF x.neg THEN c = 1
         ELSE c = -1


(***************************************************************************)
(* Texts and the conversions the page objects apply to them.               *)
(***************************************************************************)
Digits == <<"0", "1", "2", "3", "4", "5", "6", "7", "8", "9">>

IsDigit(c) == \E i \in 1..10 : Digits[i] = c

DigitVal(c) == (CHOOSE i \in 1..10 : Digits[i] = c) - 1

IsSpace(c) == c \in {" ", "\n", "\t"}

\* the longest prefix of s made of digits
RECURSIVE DigitPrefix(_)
DigitPrefix(s) ==
  IF s # <<>> /\ IsDigit(Head(s)) THEN <<Head(s)>> \o DigitPrefix(Tail(s)) ELSE <<>>

RECURSIVE SkipSpace(_)
SkipSpace(s) == IF s # <<>> /\ IsSpace(Head(s)) THEN SkipSpace(Tail(s)) ELSE s

RECURSIVE DigitsValue(_, _)
DigitsValue(ds, acc) ==
  IF ds = <<>> THEN BNorm(acc)
  ELSE DigitsValue(Tail(ds), BMulSmallC(acc, 10, DigitVal(Head(ds))))

Drop(s, n) == SubSeq(s, n + 1, Len(s))

\* String.prototype.trim
RECURSIVE TrimRight(_)
TrimRight(s) ==
  IF s # <<>> /\ IsSpace(s[Len(s)]) THEN TrimRight(SubSeq(s, 1, Len(s) - 1)) ELSE s

Trim(s) == TrimRight(SkipSpace(s))

\* text.replace(/[^0-9.]/g, '')
StripNonNumeric(s) == SelectSeq(s, LAMBDA c : IsDigit(c) \/ c = ".")

\* The decimal literal parseFloat reads at the start of s: leading white
\* space, a sign, digits, a point and digits; ok is false when there is no
\* digit.  The value is (-1)^neg * n / 10^scale.  (No text here holds an
\* exponent or "Infinity".)
DecimalPrefix(s) ==
  LET s1   == SkipSpace(s)
      sgn  == s1 # <<>> /\ Head(s1) \in {"+", "-"}
      s2   == IF sgn THEN Tail(s1) ELSE s1
      int  == DigitPrefix(s2)
      s3   == Drop(s2, Len(int))
      frac == IF s3 # <<>> /\ Head(s3) = "." THEN DigitPrefix(Tail(s3)) ELSE <<>>
  IN  [ok    |-> Len(int) + Len(frac) > 0,
       neg   |-> sgn /\ Head(s1) = "-",
       n     |-> DigitsValue(int \o frac, <<>>),
       scale |-> Len(frac)]

\* parseFloat(s)
ParseFloat(s) ==
  LET d == DecimalPrefix(s)
  IN  IF ~d.ok THEN NaN ELSE RoundRatio(d.neg, d.n, Pow10(d.scale))

\* parseInt(s, 10)
ParseInt(s) ==
  LET s1  == SkipSpace(s)
      sgn == s1 # <<>> /\ Head(s1) \in {"+", "-"}
      s2  == IF sgn THEN Tail(s1) ELSE s1
      int == DigitPrefix(s2)
  IN  IF int = <<>> THEN NaN
      ELSE RoundBin(sgn /\ Head(s1) = "-", DigitsValue(int, <<>>), 0)

\* the decimal digits of a natural number, most significant first
RECURSIVE BDigits(_)
BDigits(a) ==
  IF a = <<>> THEN <<>>
  ELSE LET qr == BDivMod(a, 10) IN BDigits(qr[1]) \o <<Digits[qr[2] + 1]>>

RECURSIVE PadLeft(_, _)
PadLeft(ds, n) == IF Len(ds) >= n THEN ds ELSE PadLeft(<<"0">> \o ds, n)

\* Number.prototype.toFixed(2): the integer n with n / 100 closest to |x|,
\* the larger one of two, written with two fraction digits
ToFixed2(x) ==
  IF x.nan THEN <<"N", "a", "N">>
  ELSE LET N  == BMulSmall(x.m, 100)
           n  == IF x.t > 0 THEN BShr(BAdd(N, BShl(<<1>>, x.t - 1)), x.t)
                 ELSE BShl(N, 0 - x.t)
           ds == PadLeft(BDigits(n), 3)
           k  == Len(ds) - 2
       IN  (IF x.neg THEN <<"-">> ELSE <<>>)
             \o SubSeq(ds, 1, k) \o <<".">> \o SubSeq(ds, k + 1, Len(ds))

\* a || b on strings, null being the absent text
Null == <<"null">>

OrElse(a, b) == IF a = Null \/ a = <<>> THEN b ELSE a


(***************************************************************************)
(* The rendering surface.  A scope (the page, or one cart row) maps each   *)
(* selector to what a query of it finds there:                             *)
(*   absent    no element matches: count() is 0, a read times out          *)
(*   countErr  count() throws                                              *)
(*   readErr   count() > 0 and textContent() / inputValue() throws (the    *)
(*             element is detached, several elements match, ...)           *)
(*   present   count() > 0 and the read returns text (Null: no text)       *)
(***************************************************************************)
Absent == [kind |-> "absent", text |-> Null]

CountErr == [kind |-> "countErr", text |-> Null]

ReadErr == [kind |-> "readErr", text |-> Null]

Present(t) == [kind |-> "present", text |-> t]

\* locator.count()
Count(scope, selector) ==
  [threw |-> scope[selector].kind = "countErr",
   value |-> IF scope[selector].kind \in {"present", "readErr"} THEN 1 ELSE 0]

\* locator.textContent()
TextContent(scope, selector) ==
  [threw |-> scope[selector].kind # "present", value |-> scope[selector].text]

\* locator.inputValue()
InputValue(scope, selector) ==
  [threw |-> scope[selector].kind # "present", value |-> scope[selector].text]

(***************************************************************************)
(* CartPage, the multi-selector variant.                                   *)
(***************************************************************************)
cartRowSelectors == <<".cart-item", "tr", "tbody tr", ".item">>

productNameSelectors == <<".product-title", "td:first-child", ".item-name", ".name">>

productPriceSelectors == <<".product-price", "td:nth-child(2)", ".price", ".item-price">>

productQuantitySelectors ==
  <<"input.input-mini", "input[type=\"number\"]", ".quantity input", "td:nth-child(3) input">>

productSubtotalSelectors == <<".line-price", "td:last-child", ".subtotal", ".item-total">>

totalPriceSelectors == <<".total", "tfoot .total", "tfoot td:last-child", ".cart-total">>

Range(f) == {f[x] : x \in DOMAIN f}

RowSelectors ==
  Range(productNameSelectors) \cup Range(productPriceSelectors)
    \cup Range(productQuantitySelectors) \cup Range(productSubtotalSelectors)

\* the result of one lookup: the value, whether an error escaped, and the
\* queries made of the surface, in order
Query(selector, kind) == [selector |-> selector, kind |-> kind]

Found(value, log) == [value |-> value, threw |-> FALSE, log |-> log]

After(log, r) == [r EXCEPT !.log = log \o @]

\* this.page.locator(selector).count() for a row selector
RowCount(surface, selector) ==
  [threw |-> surface.rows[selector].threw,
   value |-> Len(surface.rows[selector].rows)]

\* Variants of the lookups, each with one defect.
\* the row-selector loop without its break: the last selector that counts wins
RECURSIVE FindRowSelectorNoBreak(_, _)
FindRowSelectorNoBreak(surface, selectors) ==
  IF selectors = <<>>
  THEN [rowSelector |-> cartRowSelectors[1], rowCount |-> 0, log |-> <<>>]
  ELSE LET selector == Head(selectors)
           count    == RowCount(surface, selector)
           log      == <<Query(selector, "count")>>
           later    == After(log, FindRowSelectorNoBreak(surface, Tail(selectors)))
       IN  IF ~count.threw /\ count.value > 0 /\ later.rowCount = 0
           THEN [rowSelector |-> selector, rowCount |-> count.value, log |-> later.log]
           ELSE later

\* the text lookup without its return in the loop: the last match wins
RECURSIVE getTextLastMatch(_, _)
getTextLastMatch(parent, selectors) ==
  IF selectors = <<>> THEN Found(<<>>, <<>>)
  ELSE LET selector == Head(selectors)
           count    == Count(parent, selector)
           text     == TextContent(parent, selector)
           counted  == <<Query(selector, "count")>>
           read     == counted \o <<Query(selector, "read")>>
           later    == getTextLastMatch(parent, Tail(selectors))
       IN  IF count.threw \/ count.value = 0 THEN After(counted, later)
           ELSE IF text.threw THEN After(read, later)
           ELSE IF \E q \in Range(later.log) : q.kind = "read"
                     /\ parent[q.selector].kind = "present"
           THEN After(read, later)
           ELSE After(read, Found(OrElse(text.value, <<>>), later.log))

\* the text lookup that throws when no selector matched
RECURSIVE getTextOrThrow(_, _)
getTextOrThrow(parent, selectors) ==
  IF selectors = <<>> THEN [value |-> <<>>, threw |-> TRUE, log |-> <<>>]
  ELSE LET selector == Head(selectors)
           count    == Count(parent, selector)
           text     == TextContent(parent, selector)
           counted  == <<Query(selector, "count")>>
           read     == counted \o <<Query(selector, "read")>>
       IN  IF count.threw
           THEN After(counted, getTextOrThrow(parent, Tail(selectors)))
           ELSE IF count.value > 0
           THEN IF text.threw
                THEN After(read, getTextOrThrow(parent, Tail(selectors)))
                ELSE Found(OrElse(text.value, <<>>), read)
           ELSE After(counted, getTextOrThrow(parent, Tail(selectors)))

\* the input lookup without its try / catch: an error escapes
RECURSIVE getInputValueUncaught(_, _)
getInputValueUncaught(parent, selectors) ==
  IF selectors = <<>> THEN Found(<<"0">>, <<>>)
  ELSE LET selector == Head(selectors)
           count    == Count(parent, selector)
           value    == InputValue(parent, selector)
           counted  == <<Query(selector, "count")>>
           read     == counted \o <<Query(selector, "read")>>
       IN  IF count.threw
           THEN [value |-> <<>>, threw |-> TRUE, log |-> counted]
           ELSE IF count.value > 0
           THEN IF value.threw
                THEN [value |-> <<>>, threw |-> TRUE, log |-> read]
                ELSE Found(OrElse(value.value, <<"0">>), read)
           ELSE After(counted, getInputValueUncaught(parent, Tail(selectors)))

\* the row-selector loop of getCartItems: the first selector whose count is
\* above 0; a count that throws is skipped
RECURSIVE FindRowSelector(_, _)
FindRowSelector(surface, selectors) ==
  IF selectors = <<>>
  THEN [rowSelector |-> cartRowSelectors[1], rowCount |-> 0, log |-> <<>>]
  ELSE LET selector == Head(selectors)
           count    == RowCount(surface, selector)
           log      == <<Query(selector, "count")>>
       IN  IF ~count.threw /\ count.value > 0
           THEN [rowSelector |-> selector, rowCount |-> count.value, log |-> log]
           ELSE After(log, FindRowSelector(surface, Tail(selectors)))

RECURSIVE getTextWithSelectors(_, _)
getTextWithSelectors(parent, selectors) ==
  IF selectors = <<>> THEN Found(<<>>, <<>>)
  ELSE LET selector == Head(selectors)
           count    == Count(parent, selector)
           text     == TextContent(parent, selector)
           counted  == <<Query(selector, "count")>>
           read     == counted \o <<Query(selector, "read")>>
       IN  IF count.threw
           THEN After(counted, getTextWithSelectors(parent, Tail(selectors)))
           ELSE IF count.value > 0
           THEN IF text.threw
                THEN After(read, getTextWithSelectors(parent, Tail(selectors)))
                ELSE Found(OrElse(text.value, <<>>), read)
           ELSE After(counted, getTextWithSelectors(parent, Tail(selectors)))

RECURSIVE getInputValueWithSelectors(_, _)
getInputValueWithSelectors(parent, selectors) ==
  IF selectors = <<>> THEN Found(<<"0">>, <<>>)
  ELSE LET selector == Head(selectors)
           count    == Count(parent, selector)
           value    == InputValue(parent, selector)
           counted  == <<Query(selector, "count")>>
           read     == counted \o <<Query(selector, "read")>>
       IN  IF count.threw
           THEN After(counted, getInputValueWithSelectors(parent, Tail(selectors)))
           ELSE IF count.value > 0
           THEN IF value.threw
                THEN After(read, getInputValueWithSelectors(parent, Tail(selectors)))
                ELSE Found(OrElse(value.value, <<"0">>), read)
           ELSE After(counted, getInputValueWithSelectors(parent, Tail(selectors)))

\* the numeric values of one row's texts
ParsePrice(text) == ParseFloat(OrElse(StripNonNumeric(text), <<"0">>))

ParseQuantity(text) == ParseInt(OrElse(text, <<"0">>))

Positive(x) == DLess(Zero, x)

\* a row loop that pushes every row
KeepRowAlways(name, price, quantity) == TRUE

\* if (name || price > 0 || quantity > 0)
KeepRow(name, price, quantity) == name # <<>> \/ Positive(price) \/ Positive(quantity)

\* an item whose subtotal is worked out from its price and quantity
CartItemComputed(name, priceText, quantityText, subtotalText) ==
  [name     |-> Trim(name),
   price    |-> ParsePrice(priceText),
   quantity |-> ParseQuantity(quantityText),
   subtotal |-> ParseFloat(ToFixed2(DMul(ParsePrice(priceText), ParseQuantity(quantityText))))]

CartItem(name, priceText, quantityText, subtotalText) ==
  [name     |-> Trim(name),
   price    |-> ParsePrice(priceText),
   quantity |-> ParseQuantity(quantityText),
   subtotal |-> ParsePrice(subtotalText)]

\* getTotalPrice without its final return 0: the empty text is parsed
RECURSIVE TotalPriceNoDefault(_, _)
TotalPriceNoDefault(page, selectors) ==
  IF selectors = <<>> THEN Found(ParseFloat(<<>>), <<>>)
  ELSE LET selector == Head(selectors)
           count    == Count(page, selector)
           text     == TextContent(page, selector)
           counted  == <<Query(selector, "count")>>
           read     == counted \o <<Query(selector, "read")>>
       IN  IF count.threw
           THEN After(counted, TotalPriceNoDefault(page, Tail(selectors)))
           ELSE IF count.value > 0
           THEN IF text.threw \/ text.value = Null \/ text.value = <<>>
                THEN After(read, TotalPriceNoDefault(page, Tail(selectors)))
                ELSE Found(ParsePrice(text.value), read)
           ELSE After(counted, TotalPriceNoDefault(page, Tail(selectors)))

\* getTotalPrice: the first selector that matches and has a non-empty text;
\* 0 when there is none
RECURSIVE TotalPrice(_, _)
TotalPrice(page, selectors) ==
  IF selectors = <<>> THEN Found(Zero, <<>>)
  ELSE LET selector == Head(selectors)
           count    == Count(page, selector)
           text     == TextContent(page, selector)
           counted  == <<Query(selector, "count")>>
           read     == counted \o <<Query(selector, "read")>>
       IN  IF count.threw
           THEN After(counted, TotalPrice(page, Tail(selectors)))
           ELSE IF count.value > 0
           THEN IF text.threw \/ text.value = Null \/ text.value = <<>>
                THEN After(read, TotalPrice(page, Tail(selectors)))
                ELSE Found(ParsePrice(text.value), read)
           ELSE After(counted, TotalPrice(page, Tail(selectors)))

\* the sum taken over the prices instead of the subtotals
RECURSIVE SumOfPrices(_, _)
SumOfPrices(acc, its) ==
  IF its = <<>> THEN acc ELSE SumOfPrices(DAdd(acc, Head(its).price), Tail(its))

\* items.reduce((total, item) => total + item.subtotal, 0)
RECURSIVE SumOfSubtotals(_, _)
SumOfSubtotals(acc, its) ==
  IF its = <<>> THEN acc ELSE SumOfSubtotals(DAdd(acc, Head(its).subtotal), Tail(its))

Cent == ParseFloat(<<"0", ".", "0", "1">>)

\* Math.abs(a - b) < 0.01
WithinTolerance(a, b) == DLess(DAbs(DSub(a, b)), Cent)

\* parseFloat((price * quantity).toFixed(2))
ExpectedSubtotal(price, quantity) == ParseFloat(ToFixed2(DMul(price, quantity)))

SubtotalVerificationResult(item) ==
  [productName      |-> item.name,
   price            |-> item.price,
   quantity         |-> item.quantity,
   actualSubtotal   |-> item.subtotal,
   expectedSubtotal |-> ExpectedSubtotal(item.price, item.quantity),
   isCorrect        |-> WithinTolerance(ExpectedSubtotal(item.price, item.quantity),
                                        item.subtotal)]

TotalVerificationResult(tot, sumOfSubtotals) ==
  [total          |-> tot,
   sumOfSubtotals |-> sumOfSubtotals,
   isCorrect      |-> WithinTolerance(tot, sumOfSubtotals)]

(***************************************************************************)
(* CartPage, the fixed-selector variant: getTotalPrice reads ".total"      *)
(* without counting first and throws when there is no text.                *)
(***************************************************************************)
StrictTotalPrice(page) ==
  LET text == TextContent(page, ".total")
  IN  IF text.threw \/ text.value = Null \/ text.value = <<>>
      THEN [value |-> NaN, threw |-> TRUE, log |-> <<Query(".total", "read")>>]
      ELSE Found(ParseFloat(StripNonNumeric(text.value)), <<Query(".total", "read")>>)

\* the fixed selectors of the rows and of their fields
strictCartRows == ".cart-item"

strictProductName == ".product-title"

strictProductPrice == ".product-price"

strictProductQuantity == "input.input-mini"

\* the subtotal read from another cell than the one the row shows it in
strictSubtotalCell == ".subtotal"

strictProductSubtotal == ".line-price"

\* await element.textContent() || ''
StrictText(row, selector) ==
  [threw |-> TextContent(row, selector).threw,
   value |-> OrElse(TextContent(row, selector).value, <<>>)]

\* one round of the row loop of the fixed-selector getCartItems: the reads
\* are not guarded, the texts have no default and every row is pushed
StrictRow(row) ==
  LET name         == StrictText(row, strictProductName)
      priceText    == StrictText(row, strictProductPrice)
      quantityText == InputValue(row, strictProductQuantity)
      subtotalText == StrictText(row, strictProductSubtotal)
  IN  [threw |-> name.threw \/ priceText.threw \/ quantityText.threw \/ subtotalText.threw,
       value |-> [name     |-> Trim(name.value),
                  price    |-> ParseFloat(StripNonNumeric(priceText.value)),
                  quantity |-> ParseInt(OrElse(quantityText.value, <<>>)),
                  subtotal |-> ParseFloat(StripNonNumeric(subtotalText.value))]]

StrictCartItems(surface) ==
  LET found == surface.rows[strictCartRows]
  IN  [threw |-> found.threw \/ \E r \in DOMAIN found.rows : StrictRow(found.rows[r]).threw,
       value |-> [r \in DOMAIN found.rows |-> StrictRow(found.rows[r]).value]]

\* items.reduce((total, item) => total + item.subtotal, 0)
StrictSumOfSubtotals(surface) ==
  [threw |-> StrictCartItems(surface).threw,
   value |-> SumOfSubtotals(Zero, StrictCartItems(surface).value)]

StrictVerificationResult(item) ==
  LET expectedSubtotal == ParseFloat(ToFixed2(DMul(item.price, item.quantity)))
  IN  [productName      |-> item.name,
       price            |-> item.price,
       quantity         |-> item.quantity,
       actualSubtotal   |-> item.subtotal,
       expectedSubtotal |-> expectedSubtotal,
       isCorrect        |-> DLess(DAbs(DSub(expectedSubtotal, item.subtotal)), Cent)]

StrictVerifySubtotals(surface) ==
  [threw |-> StrictCartItems(surface).threw,
   value |-> [j \in DOMAIN StrictCartItems(surface).value |->
                StrictVerificationResult(StrictCartItems(surface).value[j])]]

\* getTotalPrice, then calculateSumOfSubtotals
StrictVerifyTotal(surface) ==
  LET tot            == StrictTotalPrice(surface.page)
      sumOfSubtotals == StrictSumOfSubtotals(surface)
  IN  [threw |-> tot.threw \/ sumOfSubtotals.threw,
       value |-> [total          |-> tot.value,
                  sumOfSubtotals |-> sumOfSubtotals.value,
                  isCorrect      |-> DLess(DAbs(DSub(tot.value, sumOfSubtotals.value)), Cent)]]


(***************************************************************************)
(* The surfaces the operations are run against.                            *)
(***************************************************************************)
MaxRows == 2

NoRow == [threw |-> FALSE, rows |-> <<>>]

Rows(rs) == [threw |-> FALSE, rows |-> rs]

RowsThrow == [threw |-> TRUE, rows |-> <<>>]

\* a row whose four fields are what the first selector of each list finds
PlainRow(name, price, quantity, subtotal) ==
  [s \in RowSelectors |->
     IF s = productNameSelectors[1] THEN name
     ELSE IF s = productPriceSelectors[1] THEN price
     ELSE IF s = productQuantitySelectors[1] THEN quantity
     ELSE IF s = productSubtotalSelectors[1] THEN subtotal
     ELSE Absent]

PlainPage(tot) ==
  [s \in Range(totalPriceSelectors) |-> IF s = totalPriceSelectors[1] THEN tot ELSE Absent]

Surface(rows, page) == [rows |-> rows, page |-> page]

OnlyCartItems(rs) ==
  [s \in Range(cartRowSelectors) |-> IF s = cartRowSelectors[1] THEN Rows(rs) ELSE NoRow]

One == Present(<<"1">>)

Frog == <<"F", "r", "o", "g">>

Doll == <<"D", "o", "l", "l">>

\* row r of the rows that row selector k matches: each has a name of its own
Letters == <<"A", "B", "C", "D">>

DetectRow(k, r) == PlainRow(Present(<<Letters[k], Digits[r + 1]>>), One, One, One)

\* every combination of counts of the row selectors: the count throws (-1),
\* or is 0, 1 or MaxRows
DetectSurfaces ==
  { Surface([s \in Range(cartRowSelectors) |->
               LET k == CHOOSE x \in 1..4 : cartRowSelectors[x] = s
               IN  IF c[k] = 0 - 1 THEN RowsThrow
                   ELSE Rows([r \in 1..c[k] |-> DetectRow(k, r)])],
            PlainPage(One)) : c \in [1..4 -> {0 - 1, 0, 1, MaxRows}] }

\* one row; every combination of what the name selectors, or the quantity
\* selectors, find in it: no match, a count that throws, a read that throws,
\* no text, or a text that tells which selector found it
CellKinds == {"absent", "countErr", "readErr", "empty", "text"}

Cell(kind, empty, text) ==
  IF kind = "absent" THEN Absent
  ELSE IF kind = "countErr" THEN CountErr
  ELSE IF kind = "readErr" THEN ReadErr
  ELSE IF kind = "empty" THEN Present(empty)
  ELSE Present(text)

LocateRow(selectors, kinds, empty, found) ==
  [s \in RowSelectors |->
     IF s \in Range(selectors)
     THEN LET k == CHOOSE x \in DOMAIN selectors : selectors[x] = s
          IN  Cell(kinds[k], empty, found[k])
     ELSE PlainRow(One, One, One, One)[s]]

NamesFound == <<<<"A">>, <<"B">>, <<"C">>, <<"D">>>>

QuantitiesFound == <<<<"2">>, <<"3">>, <<"4">>, <<"5">>>>

LocateSurfaces ==
  { Surface(OnlyCartItems(<<LocateRow(productNameSelectors, g, Null, NamesFound)>>),
            PlainPage(One)) : g \in [1..4 -> CellKinds] }
    \cup
  { Surface(OnlyCartItems(<<LocateRow(productQuantitySelectors, g, <<>>, QuantitiesFound)>>),
            PlainPage(One)) : g \in [1..4 -> CellKinds] }

\* every combination of what the total selectors find on the page
TotalCells ==
  {Absent, CountErr, ReadErr, Present(Null), Present(<<>>),
   Present(<<"$", "2", ".", "5", "0">>)}

TotalSurfaces ==
  { Surface(OnlyCartItems(<<PlainRow(Present(Frog), One, One, One)>>), f)
      : f \in [Range(totalPriceSelectors) -> TotalCells] }

\* one row; every combination of field texts
NameTexts == {Absent, Present(<<>>), Present(<<" ">>), Present(Frog),
              Present(<<" ">> \o Frog \o <<"\n">>)}

PriceTexts == {Absent, Present(<<"a", "b", "c">>), Present(<<".">>),
               Present(<<"$", "0", ".", "0", "0">>),
               Present(<<"$", "1", ".", "5", "0">>)}

QuantityTexts == {Absent, Present(<<>>), Present(<<"0">>), Present(<<"2">>),
                  Present(<<"-", "2">>), Present(<<"a", "b", "c">>)}

SubtotalTexts == {Absent, Present(<<"$", "3", ".", "0", "0">>)}

FieldSurfaces ==
  { Surface(OnlyCartItems(<<PlainRow(n, p, q, t)>>),
            PlainPage(Present(<<"$", "3", ".", "0", "0">>)))
      : n \in NameTexts, p \in PriceTexts, q \in QuantityTexts, t \in SubtotalTexts }

\* carts of up to MaxRows rows with displayed prices, quantities, subtotals
\* and a displayed total
Money(ds) == Present(<<"$">> \o ds)

CartRows ==
  { PlainRow(Present(Frog), Money(<<"1", "0", ".", "9", "9">>), Present(<<"2">>),
             Money(<<"2", "1", ".", "9", "8">>)),
    PlainRow(Present(Frog), Money(<<"1", "0", ".", "9", "9">>), Present(<<"2">>),
             Money(<<"2", "1", ".", "9", "7">>)),
    PlainRow(Present(Doll), Money(<<"0", ".", "0", "3">>), One,
             Money(<<"0", ".", "0", "2">>)),
    PlainRow(Present(Doll), Money(<<"0", ".", "0", "3">>), One,
             Money(<<"0", ".", "0", "3">>)),
    PlainRow(Present(Doll), Money(<<"1", ".", "5", "0">>), Present(<<"2">>),
             Money(<<"2", ".", "0", "0">>)) }

Totals ==
  { Money(<<"2", "1", ".", "9", "8">>), Money(<<"2", "1", ".", "9", "7">>),
    Money(<<"0", ".", "0", "3">>), Money(<<"2", "2", ".", "0", "1">>) }

RECURSIVE SeqsUpTo(_, _)
SeqsUpTo(S, n) ==
  IF n = 0 THEN {<<>>}
  ELSE LET shorter == SeqsUpTo(S, n - 1)
       IN  shorter \cup {Append(q, x) : q \in shorter, x \in S}

CartSurfaces ==
  { Surface(OnlyCartItems(rs), PlainPage(t)) : rs \in SeqsUpTo(CartRows, MaxRows), t \in Totals }

\* the cart of the shopping test: 2 Stuffed Frog, 5 Fluffy Bunny, 3 Valentine
\* Bear with their subtotals and total
StuffedFrog == <<"S", "t", "u", "f", "f", "e", "d", " ", "F", "r", "o", "g">>

FluffyBunny == <<"F", "l", "u", "f", "f", "y", " ", "B", "u", "n", "n", "y">>

ValentineBear ==
  <<"V", "a", "l", "e", "n", "t", "i", "n", "e", " ", "B", "e", "a", "r">>

ScenarioSurface ==
  Surface(OnlyCartItems(
            <<PlainRow(Present(StuffedFrog), Money(<<"1", "0", ".", "9", "9">>),
                       Present(<<"2">>), Money(<<"2", "1", ".", "9", "8">>)),
              PlainRow(Present(FluffyBunny), Money(<<"9", ".", "9", "9">>),
                       Present(<<"5">>), Money(<<"4", "9", ".", "9", "5">>)),
              PlainRow(Present(ValentineBear), Money(<<"1", "4", ".", "9", "9">>),
                       Present(<<"3">>), Money(<<"4", "4", ".", "9", "7">>))>>),
          PlainPage(Money(<<"1", "1", "6", ".", "9", "0">>)))

Surfaces ==
  DetectSurfaces \cup LocateSurfaces \cup TotalSurfaces \cup FieldSurfaces \cup CartSurfaces
    \cup {ScenarioSurface}


(***************************************************************************)
(* The state: the surface, the operation in progress and its locals.       *)
(***************************************************************************)
VARIABLES
  dom,          \* the rendering surface
  op,           \* the operation called last
  pc,           \* where it stands
  rowSelector,  \* getCartItems: the row selector picked
  rowCount,     \* getCartItems: the count of its rows
  i,            \* getCartItems: the index of the row being read
  texts,        \* getCartItems: the texts read from row i so far
  items,        \* getCartItems: the items pushed so far; its return value
  origin,       \* for each item, the index of the row it was read from
  total,        \* getTotalPrice: its return value
  sum,          \* calculateSumOfSubtotals: its return value
  results,      \* verifySubtotals: the results pushed so far; its return value
  totalResult,  \* verifyTotal: its return value
  last,         \* the lookup that returned last
  queries,      \* the queries the operation has made of the surface
  previous,     \* what getCartItems returned, when it is called again at once
  shop,         \* the shop page
  call,         \* the ShopPage or utility call made last, and its outcome
  test,         \* Test Case 3: where it stands and what its calls returned
  form,         \* the contact form: what each of its fields holds
  parts         \* rows read side by side: how far each is, and its texts

vars ==
  <<dom, op, pc, rowSelector, rowCount, i, texts, items, origin, total, sum,
    results, totalResult, last, queries, previous, shop, call, test, form, parts>>

\* what the operations of CartPage never touch
outside == <<shop, call, form, parts>>

NoPrevious == [known |-> FALSE, items |-> <<>>]

NoShop == [button |-> "absent", price |-> Absent, count |-> Absent, adds |-> 0]

NoCall == [fn |-> "none", args |-> <<>>, threw |-> FALSE, value |-> <<>>]

NoTotalResult == [total |-> Zero, sumOfSubtotals |-> Zero, isCorrect |-> FALSE]

formFields == <<"#forename", "#surname", "#email", "#telephone", "#message">>

NoForm == [selector \in Range(formFields) |-> Absent]

NoTest == [pc |-> "none", found |-> FALSE, subtotals |-> <<>>, total |-> NoTotalResult]

NoTexts == [name |-> <<>>, price |-> <<>>, quantity |-> <<>>, subtotal |-> <<>>]

NoLookup == [scope |-> 0, field |-> "none", value |-> <<>>, threw |-> FALSE, log |-> <<>>]

\* scope 0 is the page, scope r the r-th row of the row selector
Scoped(scope, log) ==
  [k \in 1..Len(log) |->
     [scope |-> scope, selector |-> log[k].selector, kind |-> log[k].kind]]

Init ==
  /\ dom \in Surfaces
  /\ op = "none"
  /\ pc = "idle"
  /\ rowSelector = cartRowSelectors[1]
  /\ rowCount = 0
  /\ i = 0
  /\ texts = NoTexts
  /\ items = <<>>
  /\ origin = <<>>
  /\ total = Zero
  /\ sum = Zero
  /\ results = <<>>
  /\ totalResult = NoTotalResult
  /\ last = NoLookup
  /\ queries = <<>>
  /\ previous = NoPrevious
  /\ shop = NoShop
  /\ call = NoCall
  /\ test = NoTest
  /\ form = NoForm
  /\ parts = <<>>

\* a call whose item array is the one of the call before
CallKeepsItems(o, first) ==
  /\ pc \in {"idle", "done", "thrown"}
  /\ op' = o
  /\ pc' = first
  /\ rowSelector' = cartRowSelectors[1]
  /\ rowCount' = 0
  /\ i' = 0
  /\ texts' = NoTexts
  /\ items' = IF op = "getCartItems" /\ pc = "done" THEN items ELSE <<>>
  /\ origin' = IF op = "getCartItems" /\ pc = "done" THEN origin ELSE <<>>
  /\ total' = Zero
  /\ sum' = Zero
  /\ results' = <<>>
  /\ totalResult' = NoTotalResult
  /\ last' = NoLookup
  /\ queries' = <<>>
  /\ previous' = IF o = "getCartItems" /\ op = "getCartItems" /\ pc = "done"
                  THEN [known |-> TRUE, items |-> items]
                  ELSE NoPrevious
  /\ UNCHANGED <<outside, test, dom>>

\* a call starts with fresh locals
Fresh(o, first) ==
  /\ pc \in {"idle", "done", "thrown"}
  /\ op' = o
  /\ pc' = first
  /\ rowSelector' = cartRowSelectors[1]
  /\ rowCount' = 0
  /\ i' = 0
  /\ texts' = NoTexts
  /\ items' = <<>>
  /\ origin' = <<>>
  /\ total' = Zero
  /\ sum' = Zero
  /\ results' = <<>>
  /\ totalResult' = NoTotalResult
  /\ last' = NoLookup
  /\ queries' = <<>>
  /\ previous' = IF o = "getCartItems" /\ op = "getCartItems" /\ pc = "done"
                  THEN [known |-> TRUE, items |-> items]
                  ELSE NoPrevious

\* a call of an operation of CartPage on its own
Call(o, first) == Fresh(o, first) /\ UNCHANGED <<outside, test, dom>>

CallGetCartItems == Call("getCartItems", "rows")

CallGetTotalPrice == Call("getTotalPrice", "total")

\* const items = await this.getCartItems();
CallCalculateSumOfSubtotals == Call("calculateSumOfSubtotals", "rows")

\* verifySubtotals without its call of getCartItems
CallVerifySubtotalsStale == Call("verifySubtotals", "verify")

\* const items = await this.getCartItems();
CallVerifySubtotals == Call("verifySubtotals", "rows")

\* const total = await this.getTotalPrice();
CallVerifyTotal == Call("verifyTotal", "total")

CallStrictGetTotalPrice == Call("strictGetTotalPrice", "strictTotal")

\* where the caller of getCartItems goes on
AfterCartItems(o) ==
  IF o = "getCartItems" THEN "done"
  ELSE IF o = "verifySubtotals" THEN "verify"
  ELSE "sum"

\* getCartItems up to its row loop
SelectRows ==
  /\ pc = "rows"
  /\ LET r == FindRowSelector(dom, cartRowSelectors)
     IN  /\ rowSelector' = r.rowSelector
         /\ rowCount' = r.rowCount
         /\ queries' = queries \o Scoped(0, r.log)
         /\ pc' = IF r.rowCount = 0 THEN AfterCartItems(op) ELSE "name"
  /\ UNCHANGED <<outside, test, previous, dom, op, i, texts, items, origin, total, sum, results,
                 totalResult, last>>

\* cartRows.nth(i)
Row == dom.rows[rowSelector].rows[i + 1]

NextRowPc == IF i + 1 < rowCount THEN "name" ELSE AfterCartItems(op)

\* one lookup of the row loop; an error escaping it is caught by the row's
\* try / catch, which skips the row
ReadField(field, r, next) ==
  /\ last' = [scope |-> i + 1, field |-> field, value |-> r.value,
              threw |-> r.threw, log |-> r.log]
  /\ queries' = queries \o Scoped(i + 1, r.log)
  /\ IF r.threw
     THEN /\ texts' = NoTexts
          /\ i' = i + 1
          /\ pc' = NextRowPc
     ELSE /\ texts' = [texts EXCEPT ![field] = r.value]
          /\ i' = i
          /\ pc' = next
  /\ UNCHANGED <<outside, test, previous, dom, op, rowSelector, rowCount, items, origin, total, sum,
                 results, totalResult>>

\* the row loop going from the name to the quantity, the price not read
ReadNameThenQuantity ==
  /\ pc = "name"
  /\ ReadField("name", getTextWithSelectors(Row, productNameSelectors), "quantity")

ReadName ==
  /\ pc = "name"
  /\ ReadField("name", getTextWithSelectors(Row, productNameSelectors), "price")

ReadPrice ==
  /\ pc = "price"
  /\ ReadField("price", getTextWithSelectors(Row, productPriceSelectors), "quantity")

ReadQuantity ==
  /\ pc = "quantity"
  /\ ReadField("quantity", getInputValueWithSelectors(Row, productQuantitySelectors),
               "subtotal")

ReadSubtotal ==
  /\ pc = "subtotal"
  /\ ReadField("subtotal", getTextWithSelectors(Row, productSubtotalSelectors), "push")

\* parse the row's texts and push the item
PushRow ==
  /\ pc = "push"
  /\ LET item == CartItem(texts.name, texts.price, texts.quantity, texts.subtotal)
     IN  IF KeepRow(texts.name, item.price, item.quantity)
         THEN /\ items' = Append(items, item)
              /\ origin' = Append(origin, i)
         ELSE UNCHANGED <<items, origin>>
  /\ texts' = NoTexts
  /\ i' = i + 1
  /\ pc' = NextRowPc
  /\ UNCHANGED <<outside, test, previous, dom, op, rowSelector, rowCount, total, sum, results,
                 totalResult, last, queries>>

GetTotalPrice ==
  /\ pc = "total"
  /\ LET r == TotalPrice(dom.page, totalPriceSelectors)
     IN  /\ total' = r.value
         /\ queries' = queries \o Scoped(0, r.log)
  /\ pc' = IF op = "getTotalPrice" THEN "done" ELSE "rows"
  /\ UNCHANGED <<outside, test, previous, dom, op, rowSelector, rowCount, i, texts, items, origin, sum,
                 results, totalResult, last>>

\* reduce without its initial value: it throws on an empty array
CalculateSumNoInitial ==
  /\ pc = "sum"
  /\ sum' = SumOfSubtotals(Zero, items)
  /\ pc' = IF items = <<>> THEN "thrown"
           ELSE IF op = "calculateSumOfSubtotals" THEN "done" ELSE "compare"
  /\ UNCHANGED <<outside, test, previous, dom, op, rowSelector, rowCount, i, texts, items, origin, total,
                 results, totalResult, last, queries>>

CalculateSum ==
  /\ pc = "sum"
  /\ sum' = SumOfSubtotals(Zero, items)
  /\ pc' = IF op = "calculateSumOfSubtotals" THEN "done" ELSE "compare"
  /\ UNCHANGED <<outside, test, previous, dom, op, rowSelector, rowCount, i, texts, items, origin, total,
                 results, totalResult, last, queries>>

\* the loop of verifySubtotals returning at the first mismatch
VerifyItemStops ==
  /\ pc = "verify"
  /\ Len(results) < Len(items)
  /\ LET result == SubtotalVerificationResult(items[Len(results) + 1])
     IN  /\ results' = Append(results, result)
         /\ pc' = IF result.isCorrect THEN "verify" ELSE "done"
  /\ UNCHANGED <<outside, test, previous, dom, op, rowSelector, rowCount, i, texts, items, origin,
                 total, sum, totalResult, last, queries>>

\* one round of the loop of verifySubtotals
VerifyItem ==
  /\ pc = "verify"
  /\ Len(results) < Len(items)
  /\ results' = Append(results, SubtotalVerificationResult(items[Len(results) + 1]))
  /\ UNCHANGED <<outside, test, previous, dom, op, pc, rowSelector, rowCount, i, texts, items, origin,
                 total, sum, totalResult, last, queries>>

VerifyReturn ==
  /\ pc = "verify"
  /\ Len(results) = Len(items)
  /\ pc' = "done"
  /\ UNCHANGED <<outside, test, previous, dom, op, rowSelector, rowCount, i, texts, items, origin, total,
                 sum, results, totalResult, last, queries>>

CompareTotal ==
  /\ pc = "compare"
  /\ totalResult' = TotalVerificationResult(total, sum)
  /\ pc' = "done"
  /\ UNCHANGED <<outside, test, previous, dom, op, rowSelector, rowCount, i, texts, items, origin, total,
                 sum, results, last, queries>>

StrictReadTotal ==
  /\ pc = "strictTotal"
  /\ LET r == StrictTotalPrice(dom.page)
     IN  /\ total' = r.value
         /\ queries' = queries \o Scoped(0, r.log)
         /\ pc' = IF r.threw THEN "thrown" ELSE "done"
  /\ UNCHANGED <<outside, test, previous, dom, op, rowSelector, rowCount, i, texts, items, origin, sum,
                 results, totalResult, last>>

Next ==
  \/ CallGetCartItems
  \/ CallGetTotalPrice
  \/ CallCalculateSumOfSubtotals
  \/ CallVerifySubtotals
  \/ CallVerifyTotal
  \/ CallStrictGetTotalPrice
  \/ SelectRows
  \/ ReadName
  \/ ReadPrice
  \/ ReadQuantity
  \/ ReadSubtotal
  \/ PushRow
  \/ GetTotalPrice
  \/ CalculateSum
  \/ VerifyItem
  \/ VerifyReturn
  \/ CompareTotal
  \/ StrictReadTotal

Spec == Init /\ [][Next]_vars


(***************************************************************************)
(* Properties.  What they say of the surface is stated from the surface    *)
(* itself, not from the lookups.                                           *)
(***************************************************************************)
Selectors(field) ==
  IF field = "name" THEN productNameSelectors
  ELSE IF field = "price" THEN productPriceSelectors
  ELSE IF field = "quantity" THEN productQuantitySelectors
  ELSE productSubtotalSelectors

\* '' for a text lookup, '0' for an input lookup
Default(field) == IF field = "quantity" THEN <<"0">> ELSE <<>>

\* a lookup has returned; LastRow is the row it looked in
Looked == last.field # "none"

LastRow == dom.rows[rowSelector].rows[last.scope]

LastSelectors == Selectors(last.field)

HasMatch(scope, selector) == scope[selector].kind \in {"present", "readErr"}

Errs(scope, selector) == scope[selector].kind \in {"countErr", "readErr"}

Yields(scope, selector) == scope[selector].kind = "present"

Queried(k) == \E q \in Range(last.log) : q.selector = LastSelectors[k]

\* the candidates the last lookup queried are the first k of its list
QueriedUpTo(k) == \A j \in DOMAIN LastSelectors : Queried(j) <=> j <= k

\* C1, as stated: the lookup returns the value of the first candidate that
\* has a match in the row, and queries no candidate after it.
C1_FirstMatchReturned ==
  Looked =>
    \A k \in DOMAIN LastSelectors :
      (HasMatch(LastRow, LastSelectors[k])
         /\ \A j \in 1..(k - 1) : ~HasMatch(LastRow, LastSelectors[j]))
      => /\ last.value = OrElse(LastRow[LastSelectors[k]].text, Default(last.field))
         /\ QueriedUpTo(k)

\* C1, amended: the lookup returns the value of the first candidate that has
\* a match in the row and whose count and read raise no error, and queries
\* exactly the candidates up to that one.
C1_FirstReadableReturned ==
  Looked =>
    \A k \in DOMAIN LastSelectors :
      (Yields(LastRow, LastSelectors[k])
         /\ \A j \in 1..(k - 1) : ~Yields(LastRow, LastSelectors[j]))
      => /\ last.value = OrElse(LastRow[LastSelectors[k]].text, Default(last.field))
         /\ QueriedUpTo(k)

\* C1: a name lookup whose first candidate matches but cannot be read, whose
\* second is read, and whose third, never tried, holds another text
C1_Witness ==
  /\ Looked
  /\ last.field = "name"
  /\ LastRow[productNameSelectors[1]].kind = "readErr"
  /\ LastRow[productNameSelectors[2]] = Present(NamesFound[2])
  /\ LastRow[productNameSelectors[3]] = Present(NamesFound[3])
  /\ last.value = NamesFound[2]
  /\ ~Queried(3)

\* a scope with its erroring candidates turned into candidates without match
Masked(scope) ==
  [s \in DOMAIN scope |-> IF Errs(scope, s) THEN Absent ELSE scope[s]]

Lookup(field, scope) ==
  IF field = "quantity"
  THEN getInputValueWithSelectors(scope, productQuantitySelectors)
  ELSE getTextWithSelectors(scope, Selectors(field))

\* C2: no error of a candidate's count or read escapes the lookup; after a
\* candidate that errs the lookup queries the next one, and it returns what
\* it returns when the erring candidates have no match at all.
C2_ErrorsAreNoMatch ==
  Looked =>
    /\ ~last.threw
    /\ \A k \in DOMAIN LastSelectors :
         Queried(k) /\ Errs(LastRow, LastSelectors[k]) /\ k < Len(LastSelectors)
           => Queried(k + 1)
    /\ last.value = Lookup(last.field, Masked(LastRow)).value

\* C2: a quantity lookup whose first candidate's count throws, whose second
\* candidate's read throws, and whose third candidate holds the value
C2_Witness ==
  /\ Looked
  /\ last.field = "quantity"
  /\ LastRow[productQuantitySelectors[1]].kind = "countErr"
  /\ LastRow[productQuantitySelectors[2]].kind = "readErr"
  /\ LastRow[productQuantitySelectors[3]] = Present(QuantitiesFound[3])
  /\ last.value = QuantitiesFound[3]
  /\ ~last.threw

\* C3: the lookup never raises, and when no candidate has a match that can
\* be read it returns '' (text) or '0' (input value).
C3_DefaultWhenNothingFound ==
  Looked =>
    /\ ~last.threw
    /\ (\A k \in DOMAIN LastSelectors : ~Yields(LastRow, LastSelectors[k]))
         => last.value = Default(last.field)

\* C3: a name lookup in a row where two candidates err and two have no match
C3_Witness ==
  /\ Looked
  /\ last.field = "name"
  /\ LastRow[productNameSelectors[1]].kind = "absent"
  /\ LastRow[productNameSelectors[2]].kind = "countErr"
  /\ LastRow[productNameSelectors[3]].kind = "readErr"
  /\ LastRow[productNameSelectors[4]].kind = "absent"
  /\ last.value = <<>>
  /\ ~last.threw

\* an operation has returned
Returned(o) == op = o /\ pc = "done"

\* the texts the lookups find in a row, the item made of them, and the items
\* made of a sequence of rows
RowTexts(row) ==
  [name     |-> Lookup("name", row).value,
   price    |-> Lookup("price", row).value,
   quantity |-> Lookup("quantity", row).value,
   subtotal |-> Lookup("subtotal", row).value]

RowItem(row) ==
  CartItem(RowTexts(row).name, RowTexts(row).price, RowTexts(row).quantity,
           RowTexts(row).subtotal)

RowKept(row) == KeepRow(RowTexts(row).name, RowItem(row).price, RowItem(row).quantity)

ItemsOf(rows) ==
  LET kept == SelectSeq(rows, RowKept) IN [j \in 1..Len(kept) |-> RowItem(kept[j])]

\* row selector k has a count above 0 on the page
Counts(k) ==
  /\ ~dom.rows[cartRowSelectors[k]].threw
  /\ Len(dom.rows[cartRowSelectors[k]].rows) > 0

FirstCounting(k) == Counts(k) /\ \A j \in 1..(k - 1) : ~Counts(j)

\* the rows of the cart as the surface shows them now
CartRowsNow ==
  IF \E k \in DOMAIN cartRowSelectors : Counts(k)
  THEN dom.rows[cartRowSelectors[CHOOSE k \in DOMAIN cartRowSelectors : FirstCounting(k)]].rows
  ELSE <<>>

\* C4: getCartItems does not throw; it returns the items of the rows of the
\* first row selector whose count on the page is above 0, all of its rows
\* having been visited, and the empty sequence when no row selector counts.
C4_RowsOfFirstCountingSelector ==
  /\ op = "getCartItems" => pc # "thrown"
  /\ Returned("getCartItems") =>
       /\ \A k \in DOMAIN cartRowSelectors :
            FirstCounting(k) =>
              /\ rowSelector = cartRowSelectors[k]
              /\ rowCount = Len(dom.rows[cartRowSelectors[k]].rows)
              /\ i = rowCount
              /\ items = ItemsOf(dom.rows[cartRowSelectors[k]].rows)
       /\ (\A k \in DOMAIN cartRowSelectors : ~Counts(k)) =>
            /\ rowCount = 0
            /\ items = <<>>

\* C4: the count of the first row selector throws, the second counts 0, the
\* third and the fourth count rows: the rows of the third are returned
C4_Witness ==
  /\ Returned("getCartItems")
  /\ dom.rows[cartRowSelectors[1]].threw
  /\ ~Counts(2)
  /\ Counts(3)
  /\ Counts(4)
  /\ rowSelector = cartRowSelectors[3]
  /\ Len(items) = MaxRows
  /\ items[2].name = <<"C", "2">>

\* C4: no row selector counts and getCartItems has returned no item
C4_WitnessEmpty ==
  /\ Returned("getCartItems")
  /\ \A k \in DOMAIN cartRowSelectors : ~Counts(k)
  /\ items = <<>>

\* C5, as stated: every item getCartItems returns has a non-empty name, a
\* price above 0 or a quantity above 0.
C5_NoEmptyItem ==
  \A j \in DOMAIN items :
    items[j].name # <<>> \/ Positive(items[j].price) \/ Positive(items[j].quantity)

\* the amount a money text shows, in cents, for texts of at most two
\* fraction digits; the count a quantity text shows
Shown(text) == DecimalPrefix(OrElse(StripNonNumeric(text), <<"0">>))

ShowsCents(text) == Shown(text).ok /\ Shown(text).scale <= 2

CentsShown(text) == BToInt(Shown(text).n) * Pow10(2 - Shown(text).scale)

ShowsCount(text) == text # <<>> /\ DigitPrefix(text) = text

CountShown(text) == BToInt(DigitsValue(text, <<>>))

Abs(n) == IF n < 0 THEN 0 - n ELSE n

\* the row item j was read from
ItemRow(j) == dom.rows[rowSelector].rows[origin[j] + 1]

\* C6, as stated: for a row showing price p and quantity q, the check holds
\* expectedSubtotal = p * q rounded to cents, and isCorrect is false exactly
\* when expected and displayed subtotal differ by 0.01 or more.
C6_FlagsCentDifferences ==
  op = "verifySubtotals" =>
    \A j \in DOMAIN results :
      LET t == RowTexts(ItemRow(j))
          e == CentsShown(t.price) * CountShown(t.quantity)
          d == CentsShown(t.subtotal)
      IN  (ShowsCents(t.price) /\ ShowsCount(t.quantity) /\ ShowsCents(t.subtotal))
            => /\ results[j].expectedSubtotal = RoundRatio(FALSE, BFromInt(e), 100)
               /\ ~results[j].isCorrect <=> Abs(e - d) >= 1

\* C7: verifySubtotals holds one check per item, in item order, check j made
\* of item j, whatever the checks before it found.
C7_OneCheckPerItem ==
  op = "verifySubtotals" =>
    /\ Len(results) <= Len(items)
    /\ \A j \in DOMAIN results :
         /\ results[j].productName = items[j].name
         /\ results[j].price = items[j].price
         /\ results[j].quantity = items[j].quantity
         /\ results[j].actualSubtotal = items[j].subtotal
    /\ pc = "done" => Len(results) = Len(items)

\* C7: two items, the first with a mismatching subtotal, and both checked
C7_Witness ==
  /\ Returned("verifySubtotals")
  /\ Len(items) = 2
  /\ Len(results) = 2
  /\ ~results[1].isCorrect
  /\ results[2].isCorrect

\* the total selector k has a text on the page
TotalReadable(k) ==
  /\ dom.page[totalPriceSelectors[k]].kind = "present"
  /\ dom.page[totalPriceSelectors[k]].text \notin {Null, <<>>}

RECURSIVE SubtotalCents(_)
SubtotalCents(n) ==
  IF n = 0 THEN 0 ELSE SubtotalCents(n - 1) + CentsShown(RowTexts(ItemRow(n)).subtotal)

\* C8, as stated: isCorrect of verifyTotal is true exactly when the displayed
\* total and the sum of the displayed subtotals differ by less than 0.01.
C8_TotalWithinACent ==
  (/\ Returned("verifyTotal")
   /\ TotalReadable(1)
   /\ ShowsCents(dom.page[totalPriceSelectors[1]].text)
   /\ \A j \in DOMAIN items : ShowsCents(RowTexts(ItemRow(j)).subtotal))
  => (totalResult.isCorrect
        <=> Abs(CentsShown(dom.page[totalPriceSelectors[1]].text)
                  - SubtotalCents(Len(items))) < 1)

\* C9, as stated: verifySubtotals and verifyTotal make no query of the surface.
C9_NoSurfaceRead == op \in {"verifySubtotals", "verifyTotal"} => queries = <<>>

\* what the two checks hold when they return, from what the surface shows
C9_FromTheSurface ==
  /\ Returned("verifySubtotals") =>
       /\ queries # <<>>
       /\ results = [j \in DOMAIN ItemsOf(CartRowsNow) |->
                       SubtotalVerificationResult(ItemsOf(CartRowsNow)[j])]
  /\ Returned("verifyTotal") =>
       /\ queries # <<>>
       /\ totalResult =
            TotalVerificationResult(TotalPrice(dom.page, totalPriceSelectors).value,
                                    SumOfSubtotals(Zero, ItemsOf(CartRowsNow)))

\* C9, amended: verifySubtotals and verifyTotal take no data: each reads the
\* items (and the total) from the surface itself, its result is determined by
\* what the surface shows, and no step of any operation changes the surface.
C9_ReadsAndNeverWrites == []C9_FromTheSurface /\ [][dom' = dom]_vars

\* C9: verifySubtotals has returned two checks after querying the surface
C9_Witness ==
  /\ Returned("verifySubtotals")
  /\ Len(results) = 2
  /\ \E q \in Range(queries) : q.scope = 2 /\ q.kind = "read"

\* C10, as stated: no operation throws, and a missing total is reported as 0.
C10_NothingThrows ==
  /\ pc # "thrown"
  /\ (pc = "done" /\ op \in {"getTotalPrice", "strictGetTotalPrice"}
        /\ \A k \in DOMAIN totalPriceSelectors : ~TotalReadable(k))
       => total = Zero

\* C10, amended: the operations of the multi-selector CartPage never throw,
\* its getTotalPrice returning 0 when no total selector has a text; the
\* getTotalPrice of the fixed-selector CartPage throws exactly when ".total"
\* has no text.
C10_OnlyFixedSelectorTotalThrows ==
  /\ pc = "thrown" => op = "strictGetTotalPrice"
  /\ (op \in {"getTotalPrice", "verifyTotal"} /\ pc \in {"rows", "done"}
        /\ \A k \in DOMAIN totalPriceSelectors : ~TotalReadable(k))
       => total = Zero
  /\ (op = "strictGetTotalPrice" /\ pc \in {"done", "thrown"})
       => (pc = "thrown" <=> ~TotalReadable(1))

\* C10: verifyTotal has returned on a page where the count of one total
\* selector throws and no other has a text: total 0, reported as a mismatch
C10_Witness ==
  /\ Returned("verifyTotal")
  /\ dom.page[totalPriceSelectors[1]].kind = "countErr"
  /\ \A k \in DOMAIN totalPriceSelectors : ~TotalReadable(k)
  /\ totalResult.total = Zero
  /\ ~totalResult.isCorrect

\* no row selector has a count above 0
NoRows == \A k \in DOMAIN cartRowSelectors : ~Counts(k)

\* C11: on a surface where no rows are detected getCartItems returns [],
\* calculateSumOfSubtotals returns 0, verifySubtotals returns [], verifyTotal
\* reports sumOfSubtotals 0, and none of them throws.
C11_EmptyCart ==
  NoRows =>
    /\ op # "strictGetTotalPrice" => pc # "thrown"
    /\ Returned("getCartItems") => items = <<>>
    /\ Returned("calculateSumOfSubtotals") => sum = Zero
    /\ Returned("verifySubtotals") => results = <<>>
    /\ Returned("verifyTotal") => totalResult.sumOfSubtotals = Zero

\* C11: verifyTotal has returned on a page where one row selector's count
\* throws and the others count 0
C11_Witness ==
  /\ NoRows
  /\ \E k \in DOMAIN cartRowSelectors : dom.rows[cartRowSelectors[k]].threw
  /\ Returned("verifyTotal")
  /\ totalResult.sumOfSubtotals = Zero
  /\ items = <<>>

\* C12: on the cart of the shopping test verifySubtotals returns the expected
\* subtotals 21.98, 49.95, 44.97, all correct, and verifyTotal returns the sum
\* of subtotals 116.90 and the total 116.90, correct.
C12_ShoppingScenario ==
  dom = ScenarioSurface =>
    /\ Returned("verifySubtotals") =>
         /\ Len(results) = 3
         /\ results[1].productName = StuffedFrog
         /\ results[2].productName = FluffyBunny
         /\ results[3].productName = ValentineBear
         /\ results[1].expectedSubtotal = ParseFloat(<<"2", "1", ".", "9", "8">>)
         /\ results[2].expectedSubtotal = ParseFloat(<<"4", "9", ".", "9", "5">>)
         /\ results[3].expectedSubtotal = ParseFloat(<<"4", "4", ".", "9", "7">>)
         /\ \A j \in 1..3 : results[j].isCorrect
    /\ Returned("verifyTotal") =>
         /\ totalResult.sumOfSubtotals = ParseFloat(<<"1", "1", "6", ".", "9", "0">>)
         /\ totalResult.total = ParseFloat(<<"1", "1", "6", ".", "9", "0">>)
         /\ totalResult.isCorrect

\* C12: verifyTotal has returned, correct, on the cart of the shopping test
C12_Witness ==
  /\ dom = ScenarioSurface
  /\ Returned("verifyTotal")
  /\ Len(items) = 3
  /\ totalResult.isCorrect

\* C13: when getCartItems is called again at once on the same surface it
\* returns the sequence of items it returned before, and no step of the call
\* changes the surface.
C13_SameItemsAgain ==
  /\ [](Returned("getCartItems") /\ previous.known => items = previous.items)
  /\ [][op = "getCartItems" => dom' = dom]_vars

\* C13: getCartItems has returned the same two items twice
C13_Witness ==
  /\ Returned("getCartItems")
  /\ previous.known
  /\ Len(previous.items) = 2
  /\ items = previous.items

\* C14, as stated: the quantity of every item getCartItems returns is a
\* number and is not negative.
C14_QuantityNeverNegative ==
  \A j \in DOMAIN items : ~items[j].quantity.nan /\ ~items[j].quantity.neg

StartsWithDigit(text) == text # <<>> /\ IsDigit(Head(text))

\* C16, as stated: the quantity of an item is the base-10 value of the
\* leading digits of its quantity text, and 0 when the text does not start
\* with a digit.
C16_QuantityZeroOnFailure ==
  \A j \in DOMAIN items :
    LET text == RowTexts(ItemRow(j)).quantity
    IN  IF StartsWithDigit(text)
        THEN items[j].quantity = RoundBin(FALSE, DigitsValue(DigitPrefix(text), <<>>), 0)
        ELSE items[j].quantity = Zero


(***************************************************************************)
(* The utilities of logger.ts and ShopPage.                                *)
(***************************************************************************)
\* parseFloat(currencyStr.replace(/[^0-9.]/g, ''))
\* `$${value.toFixed(2)}`
formatCurrency(value) == <<"$">> \o ToFixed2(value)

parseCurrency(currencyStr) == ParseFloat(StripNonNumeric(currencyStr))

\* Math.abs(a - b) < epsilon
isApproximatelyEqual(a, b, epsilon) == DLess(DAbs(DSub(a, b)), epsilon)

TeddyBear == <<"T", "e", "d", "d", "y", " ", "B", "e", "a", "r">>

HandmadeDoll == <<"H", "a", "n", "d", "m", "a", "d", "e", " ", "D", "o", "l", "l">>

SmileyBear == <<"S", "m", "i", "l", "e", "y", " ", "B", "e", "a", "r">>

FunnyCow == <<"F", "u", "n", "n", "y", " ", "C", "o", "w">>

SmileyFace == <<"S", "m", "i", "l", "e", "y", " ", "F", "a", "c", "e">>

\* productIds and productPrices, in the order of the tables
productIds ==
  <<[name |-> TeddyBear, id |-> 1], [name |-> StuffedFrog, id |-> 2],
    [name |-> HandmadeDoll, id |-> 3], [name |-> FluffyBunny, id |-> 4],
    [name |-> SmileyBear, id |-> 5], [name |-> FunnyCow, id |-> 6],
    [name |-> ValentineBear, id |-> 7], [name |-> SmileyFace, id |-> 8]>>

productPrices ==
  <<[name |-> TeddyBear, price |-> <<"1", "2", ".", "9", "9">>],
    [name |-> StuffedFrog, price |-> <<"1", "0", ".", "9", "9">>],
    [name |-> HandmadeDoll, price |-> <<"1", "0", ".", "9", "9">>],
    [name |-> FluffyBunny, price |-> <<"9", ".", "9", "9">>],
    [name |-> SmileyBear, price |-> <<"1", "4", ".", "9", "9">>],
    [name |-> FunnyCow, price |-> <<"1", "0", ".", "9", "9">>],
    [name |-> ValentineBear, price |-> <<"1", "4", ".", "9", "9">>],
    [name |-> SmileyFace, price |-> <<"9", ".", "9", "9">>]>>

\* productName in table, and table[productName]
HasKey(table, productName) == \E k \in DOMAIN table : table[k].name = productName

Entry(table, productName) ==
  table[CHOOSE k \in DOMAIN table : table[k].name = productName]

Threw == [threw |-> TRUE, value |-> NaN]

Returns(value) == [threw |-> FALSE, value |-> value]

\* the lookup that takes the first entry whose name contains the name given
RECURSIVE IsPrefix(_, _)
IsPrefix(part, text) ==
  \/ part = <<>>
  \/ text # <<>> /\ Head(part) = Head(text) /\ IsPrefix(Tail(part), Tail(text))

RECURSIVE Contains(_, _)
Contains(text, part) ==
  \/ IsPrefix(part, text)
  \/ text # <<>> /\ Contains(Tail(text), part)

getProductPriceByPart(page, productName) ==
  IF \E k \in DOMAIN productPrices : Contains(productPrices[k].name, productName)
  THEN Returns(ParseFloat(
         productPrices[CHOOSE k \in DOMAIN productPrices :
                         /\ Contains(productPrices[k].name, productName)
                         /\ \A j \in 1..(k - 1) :
                              ~Contains(productPrices[j].name, productName)].price))
  ELSE Threw

\* ShopPage.getProductPrice: the known price, else the price the page shows
\* for the product's id, else an error
getProductPrice(page, productName) ==
  IF HasKey(productPrices, productName)
  THEN Returns(ParseFloat(Entry(productPrices, productName).price))
  ELSE IF HasKey(productIds, productName)
  THEN IF page.price.kind # "present" \/ page.price.text \in {Null, <<>>}
       THEN Threw
       ELSE Returns(parseCurrency(page.price.text))
  ELSE Threw

\* ShopPage.getCartCount
getCartCount(page) ==
  IF page.count.kind # "present" THEN Zero
  ELSE ParseInt(OrElse(page.count.text, <<"0">>))

\* the page after one click of a buy button: the cart count it shows grows
\* by page.adds when it shows a number
Clicked(page) ==
  IF page.count.kind = "present" /\ ShowsCount(page.count.text)
  THEN [page EXCEPT !.count =
          Present(PadLeft(BDigits(BFromInt(CountShown(page.count.text) + page.adds)), 1))]
  ELSE page

RECURSIVE ClickedTimes(_, _)
ClickedTimes(page, n) == IF n = 0 THEN page ELSE ClickedTimes(Clicked(page), n - 1)

\* updatedCartCount >= initialCartCount + quantity
AtLeast(x, y) == ~x.nan /\ ~y.nan /\ ~DLess(x, y)

\* buyProduct that lets the error of an unknown product escape
buyProductThrows(page, productName, quantity) ==
  IF ~HasKey(productIds, productName)
  THEN [threw |-> TRUE, value |-> FALSE, page |-> page, clicks |-> 0]
  ELSE IF page.button \in {"absent", "countErr"}
  THEN [threw |-> FALSE, value |-> FALSE, page |-> page, clicks |-> 0]
  ELSE IF page.button = "clickErr" /\ quantity > 0
  THEN [threw |-> FALSE, value |-> FALSE, page |-> page, clicks |-> 0]
  ELSE LET after == ClickedTimes(page, quantity)
       IN  [threw |-> FALSE,
            value |-> AtLeast(getCartCount(after),
                              DAdd(getCartCount(page), RoundBin(FALSE, BFromInt(quantity), 0))),
            page  |-> after,
            clicks |-> quantity]

\* buyProduct that does not compare the cart counts
buyProductUnverified(page, productName, quantity) ==
  IF ~HasKey(productIds, productName)
  THEN [threw |-> FALSE, value |-> FALSE, page |-> page, clicks |-> 0]
  ELSE IF page.button \in {"absent", "countErr"}
  THEN [threw |-> FALSE, value |-> FALSE, page |-> page, clicks |-> 0]
  ELSE IF page.button = "clickErr" /\ quantity > 0
  THEN [threw |-> FALSE, value |-> FALSE, page |-> page, clicks |-> 0]
  ELSE [threw |-> FALSE, value |-> TRUE, page |-> ClickedTimes(page, quantity),
        clicks |-> quantity]

\* ShopPage.buyProduct: the value returned, the page it leaves and the clicks
\* it made
buyProduct(page, productName, quantity) ==
  IF ~HasKey(productIds, productName)
  THEN [threw |-> FALSE, value |-> FALSE, page |-> page, clicks |-> 0]
  ELSE IF page.button \in {"absent", "countErr"}
  THEN [threw |-> FALSE, value |-> FALSE, page |-> page, clicks |-> 0]
  ELSE IF page.button = "clickErr" /\ quantity > 0
  THEN [threw |-> FALSE, value |-> FALSE, page |-> page, clicks |-> 0]
  ELSE LET after == ClickedTimes(page, quantity)
       IN  [threw |-> FALSE,
            value |-> AtLeast(getCartCount(after),
                              DAdd(getCartCount(page), RoundBin(FALSE, BFromInt(quantity), 0))),
            page  |-> after,
            clicks |-> quantity]

(***************************************************************************)
(* Calls of the utilities and of ShopPage, one call a step, the utilities  *)
(* under SpecUtils and ShopPage under SpecShop.  The shop page             *)
(* shows: for the buy button of the product asked for, whether it is       *)
(* absent, its count throws, it is present, or its click throws; the price *)
(* element of the product; the cart count; and by how much a click makes   *)
(* the cart count grow.                                                    *)
(***************************************************************************)
MaxCents == 24

MaxQuantity == 2

MaxCartCount == 4

ShopSurfaces ==
  [button : {"absent", "countErr", "present", "clickErr"},
   price  : {Absent, Money(<<"1", "0", ".", "9", "9">>)},
   count  : {Absent, ReadErr, Present(Null), Present(<<"0">>), Present(<<"3">>),
             Present(<<"a", "b", "c">>), Present(<<" ">>)},
   adds   : {0, 1}]

Bear == <<"B", "e", "a", "r">>

ProductNames ==
  {productIds[k].name : k \in DOMAIN productIds}
    \cup {Frog, Bear, <<"s", "t", "u", "f", "f", "e", "d", " ", "f", "r", "o", "g">>,
          <<"R", "o", "b", "o", "t">>}

CurrencyTexts ==
  {<<>>, <<"a", "b", "c">>, <<".">>, <<"$">>, <<"$", "1", "2", ".", "9", "9">>,
   <<"$", "1", ",", "2", "3", "4", ".", "5", "0">>, <<"-", "5", ".", "0", "0">>,
   <<"0">>, <<"1", "2", ".", "9", "9", " ", "U", "S", "D">>}

HalfCent == ParseFloat(<<"0", ".", "0", "0", "5">>)

\* the binary64 of an amount of cents
Amount(cents) == RoundRatio(FALSE, BFromInt(cents), 100)

\* the state of CartPage, which these calls leave alone
cart ==
  <<dom, op, pc, rowSelector, rowCount, i, texts, items, origin, total, sum,
    results, totalResult, last, queries, previous>>

\* CartPage before any of its operations, on the page of the scenario
Idle ==
  /\ dom = ScenarioSurface
  /\ op = "none"
  /\ pc = "idle"
  /\ rowSelector = cartRowSelectors[1]
  /\ rowCount = 0
  /\ i = 0
  /\ texts = NoTexts
  /\ items = <<>>
  /\ origin = <<>>
  /\ total = Zero
  /\ sum = Zero
  /\ results = <<>>
  /\ totalResult = NoTotalResult
  /\ last = NoLookup
  /\ queries = <<>>
  /\ previous = NoPrevious
  /\ parts = <<>>

InitUtils == Idle /\ shop = NoShop /\ call = NoCall /\ test = NoTest /\ form = NoForm

InitShop ==
  Idle /\ shop \in ShopSurfaces /\ call = NoCall /\ test = NoTest /\ form = NoForm

CallParseCurrency ==
  /\ \E text \in CurrencyTexts :
       call' = [fn |-> "parseCurrency", args |-> <<text>>, threw |-> FALSE,
                value |-> parseCurrency(text)]
  /\ UNCHANGED <<cart, test, form, shop, parts>>

\* the parse of a price, subtotal or total text in CartPage
CallParsePrice ==
  /\ \E text \in CurrencyTexts :
       call' = [fn |-> "parsePrice", args |-> <<text>>, threw |-> FALSE,
                value |-> ParsePrice(text)]
  /\ UNCHANGED <<cart, test, form, shop, parts>>

CallIsApproximatelyEqual ==
  /\ \E cents \in 0..MaxCents, d \in {Zero, HalfCent, Cent}, swap \in BOOLEAN :
       LET a == Amount(cents)
           b == DAdd(a, d)
           x == IF swap THEN b ELSE a
           y == IF swap THEN a ELSE b
       IN  call' = [fn |-> "isApproximatelyEqual", args |-> <<x, y>>, threw |-> FALSE,
                    value |-> isApproximatelyEqual(x, y, Cent)]
  /\ UNCHANGED <<cart, test, form, shop, parts>>

CallGetProductPrice ==
  /\ \E productName \in ProductNames :
       LET r == getProductPrice(shop, productName)
       IN  call' = [fn |-> "getProductPrice", args |-> <<productName>>,
                    threw |-> r.threw, value |-> r.value]
  /\ UNCHANGED <<cart, test, form, shop, parts>>

CallBuyProduct ==
  /\ shop.count.kind = "present" /\ ShowsCount(shop.count.text)
       => CountShown(shop.count.text) <= MaxCartCount
  /\ \E productName \in ProductNames, quantity \in 0..MaxQuantity :
       LET r == buyProduct(shop, productName, quantity)
       IN  /\ call' = [fn |-> "buyProduct", args |-> <<productName, quantity>>,
                       threw |-> r.threw, value |-> r.value,
                       clicks |-> r.clicks, before |-> shop]
           /\ shop' = r.page
  /\ UNCHANGED <<cart, test, form, parts>>

CallGetCartCount ==
  /\ call' = [fn |-> "getCartCount", args |-> <<>>, threw |-> FALSE,
              value |-> getCartCount(shop)]
  /\ UNCHANGED <<cart, test, form, shop, parts>>

\* the binary64 of an amount of cents of either sign
SignedAmount(cents) == IF cents < 0 THEN DNeg(Amount(0 - cents)) ELSE Amount(cents)

CallFormatCurrency ==
  /\ \E cents \in (0 - MaxCents)..MaxCents :
       call' = [fn |-> "formatCurrency", args |-> <<SignedAmount(cents)>>, threw |-> FALSE,
                value |-> formatCurrency(SignedAmount(cents))]
  /\ UNCHANGED <<cart, test, form, shop, parts>>

NextUtils ==
  \/ CallFormatCurrency
  \/ CallParseCurrency
  \/ CallParsePrice
  \/ CallIsApproximatelyEqual

SpecUtils == InitUtils /\ [][NextUtils]_vars

NextShop ==
  \/ CallGetProductPrice
  \/ CallBuyProduct
  \/ CallGetCartCount

SpecShop == InitShop /\ [][NextShop]_vars

(***************************************************************************)
(* Test Case 3 of shopping.spec.ts, from its look for cart rows on.  The   *)
(* shopping before it is what puts the rows on the surface.  The test      *)
(* keeps none of the values it is returned; test.subtotals and test.total  *)
(* record them.  page.locator('.cart-item, tr').all() counts the elements  *)
(* of either selector, and throws when a count of the surface throws.      *)
(***************************************************************************)
cartItemsSelectors == <<".cart-item", "tr">>

stuffedFrogPrice == ParseFloat(<<"1", "0", ".", "9", "9">>)

fluffyBunnyPrice == ParseFloat(<<"9", ".", "9", "9">>)

valentineBearPrice == ParseFloat(<<"1", "4", ".", "9", "9">>)

Number(n) == RoundBin(FALSE, BFromInt(n), 0)

stuffedFrogSubtotal == DMul(stuffedFrogPrice, Number(2))

fluffyBunnySubtotal == DMul(fluffyBunnyPrice, Number(5))

valentineBearSubtotal == DMul(valentineBearPrice, Number(3))

expectedTotal == DAdd(DAdd(stuffedFrogSubtotal, fluffyBunnySubtotal), valentineBearSubtotal)

\* expect(received).toBeCloseTo(expected, 2)
CloseTo(received, expected) == DLess(DAbs(DSub(expected, received)), HalfCent)

\* const cartItems = await page.locator('.cart-item, tr').all();
TestLocate ==
  /\ test.pc = "none"
  /\ pc = "idle"
  /\ LET threw == \E k \in DOMAIN cartItemsSelectors : dom.rows[cartItemsSelectors[k]].threw
         found == \E k \in DOMAIN cartItemsSelectors :
                    Len(dom.rows[cartItemsSelectors[k]].rows) > 0
     IN  test' = [test EXCEPT !.pc = IF threw THEN "failed"
                                     ELSE IF found THEN "found" ELSE "notFound",
                              !.found = ~threw /\ found]
  /\ UNCHANGED <<cart, outside>>

\* await cartPage.verifySubtotals();
TestVerifySubtotals ==
  /\ test.pc = "found"
  /\ Fresh("verifySubtotals", "rows")
  /\ test' = [test EXCEPT !.pc = "verifySubtotals"]
  /\ UNCHANGED <<outside, dom>>

\* await cartPage.verifyTotal();
TestVerifyTotal ==
  /\ test.pc = "verifySubtotals"
  /\ op = "verifySubtotals" /\ pc = "done"
  /\ Fresh("verifyTotal", "total")
  /\ test' = [test EXCEPT !.pc = "verifyTotal", !.subtotals = results]
  /\ UNCHANGED <<outside, dom>>

\* logger.info('Test Case 3 completed');
TestCompleted ==
  /\ test.pc = "verifyTotal"
  /\ op = "verifyTotal" /\ pc = "done"
  /\ test' = [test EXCEPT !.pc = "passed", !.total = totalResult]
  /\ UNCHANGED <<cart, outside>>

\* the else branch: the test's own values against themselves
TestManual ==
  /\ test.pc = "notFound"
  /\ test' = [test EXCEPT !.pc =
       IF /\ CloseTo(stuffedFrogSubtotal, DMul(stuffedFrogPrice, Number(2)))
          /\ CloseTo(fluffyBunnySubtotal, DMul(fluffyBunnyPrice, Number(5)))
          /\ CloseTo(valentineBearSubtotal, DMul(valentineBearPrice, Number(3)))
          /\ CloseTo(expectedTotal,
                     DAdd(DAdd(stuffedFrogSubtotal, fluffyBunnySubtotal),
                          valentineBearSubtotal))
       THEN "passed" ELSE "failed"]
  /\ UNCHANGED <<cart, outside>>

NextTest ==
  \/ TestLocate
  \/ TestVerifySubtotals
  \/ TestVerifyTotal
  \/ TestCompleted
  \/ TestManual
  \/ SelectRows
  \/ ReadName
  \/ ReadPrice
  \/ ReadQuantity
  \/ ReadSubtotal
  \/ PushRow
  \/ GetTotalPrice
  \/ CalculateSum
  \/ VerifyItem
  \/ VerifyReturn
  \/ CompareTotal

SpecTest == Init /\ [][NextTest]_vars

(***************************************************************************)
(* The contact form.  A field is absent from the page or holds a text;     *)
(* page.fill of an absent field times out and throws, and of a present one *)
(* replaces what it holds.                                                 *)
(***************************************************************************)
Old == <<"o", "l", "d">>

TestUser == <<"T", "e", "s", "t", " ", "U", "s", "e", "r">>

\* the arguments of the call in contact.spec.ts
TestValues ==
  <<TestUser,
    <<"T", "e", "s", "t">>,
    <<"t", "e", "s", "t", "@", "e", "x", "a", "m", "p", "l", "e", ".", "c", "o", "m">>,
    <<"1", "2", "3", "4", "5", "6", "7", "8", "9", "0">>,
    <<"T", "h", "i", "s", " ", "i", "s", " ", "a", " ", "t", "e", "s", "t", " ",
      "m", "e", "s", "s", "a", "g", "e">>>>

Forms == [Range(formFields) -> {Absent, Present(Old)}]

\* the values a call may give for field k: none, or the one of the test; a
\* blank as well for the forename
ValuesFor(k) == {<<>>, TestValues[k]} \cup (IF k = 1 THEN {<<" ">>} ELSE {})

\* BasePage.fill
fill(page, selector, value) ==
  IF page[selector].kind # "present"
  THEN [threw |-> TRUE, page |-> page]
  ELSE [threw |-> FALSE, page |-> [page EXCEPT ![selector] = Present(value)]]

\* fillContactForm that fills every field, also with an empty value
RECURSIVE FillAllFrom(_, _, _)
FillAllFrom(page, values, k) ==
  IF k > Len(formFields) THEN [threw |-> FALSE, page |-> page]
  ELSE LET r == fill(page, formFields[k], values[k])
       IN  IF r.threw THEN r ELSE FillAllFrom(r.page, values, k + 1)

fillContactFormAll(page, forename, surname, email, telephone, message) ==
  FillAllFrom(page, <<forename, surname, email, telephone, message>>, 1)

\* the ifs of fillContactForm from field k on
RECURSIVE FillFrom(_, _, _)
FillFrom(page, values, k) ==
  IF k > Len(formFields) THEN [threw |-> FALSE, page |-> page]
  ELSE IF values[k] = <<>> THEN FillFrom(page, values, k + 1)
  ELSE LET r == fill(page, formFields[k], values[k])
       IN  IF r.threw THEN r ELSE FillFrom(r.page, values, k + 1)

\* ContactPage.fillContactForm: whether it threw and the form it leaves
fillContactForm(page, forename, surname, email, telephone, message) ==
  FillFrom(page, <<forename, surname, email, telephone, message>>, 1)

\* page.inputValue(selector)
inputValue(page, selector) ==
  IF page[selector].kind # "present"
  THEN [threw |-> TRUE, value |-> <<>>]
  ELSE [threw |-> FALSE, value |-> page[selector].text]

InitForm ==
  Idle /\ shop = NoShop /\ call = NoCall /\ test = NoTest /\ form \in Forms

CallFillContactForm ==
  /\ \E forename \in ValuesFor(1), surname \in ValuesFor(2), email \in ValuesFor(3),
        telephone \in ValuesFor(4), message \in ValuesFor(5) :
       LET r == fillContactForm(form, forename, surname, email, telephone, message)
       IN  /\ form' = r.page
           /\ call' = [fn |-> "fillContactForm",
                       args |-> <<forename, surname, email, telephone, message>>,
                       threw |-> r.threw, value |-> <<>>, before |-> form]
  /\ UNCHANGED <<cart, test, shop, parts>>

\* expect(await page.inputValue('#forename'))
CallInputValue ==
  /\ \E k \in DOMAIN formFields :
       LET r == inputValue(form, formFields[k])
       IN  call' = [fn |-> "inputValue", args |-> <<formFields[k]>>,
                    threw |-> r.threw, value |-> r.value, before |-> form]
  /\ UNCHANGED <<cart, test, shop, form, parts>>

NextForm ==
  \/ CallFillContactForm
  \/ CallInputValue

SpecForm == InitForm /\ [][NextForm]_vars

(***************************************************************************)
(* verifyTotal on a cart that changes while it runs: between any two steps *)
(* the shop may add a row to the cart and show the new total.  Each cart   *)
(* is consistent: its total is the sum of the subtotals of its rows.       *)
(***************************************************************************)
LiveRows ==
  <<PlainRow(Present(StuffedFrog), Money(<<"1", "0", ".", "9", "9">>), Present(<<"2">>),
             Money(<<"2", "1", ".", "9", "8">>)),
    PlainRow(Present(FluffyBunny), Money(<<"9", ".", "9", "9">>), One,
             Money(<<"9", ".", "9", "9">>)),
    PlainRow(Present(ValentineBear), Money(<<"1", "4", ".", "9", "9">>), One,
             Money(<<"1", "4", ".", "9", "9">>))>>

\* the total shown with no row and after each row
LiveTotals ==
  <<Money(<<"0", ".", "0", "0">>), Money(<<"2", "1", ".", "9", "8">>),
    Money(<<"3", "1", ".", "9", "7">>), Money(<<"4", "6", ".", "9", "6">>)>>

\* the cart with the first n rows
LiveCart(n) ==
  Surface(OnlyCartItems(SubSeq(LiveRows, 1, n)), PlainPage(LiveTotals[n + 1]))

InitLive ==
  /\ dom = LiveCart(0)
  /\ op = "none"
  /\ pc = "idle"
  /\ rowSelector = cartRowSelectors[1]
  /\ rowCount = 0
  /\ i = 0
  /\ texts = NoTexts
  /\ items = <<>>
  /\ origin = <<>>
  /\ total = Zero
  /\ sum = Zero
  /\ results = <<>>
  /\ totalResult = NoTotalResult
  /\ last = NoLookup
  /\ queries = <<>>
  /\ previous = NoPrevious
  /\ shop = NoShop
  /\ call = NoCall
  /\ test = NoTest
  /\ form = NoForm
  /\ parts = <<>>

\* the shop adds a row to the cart
AddRow ==
  /\ \E n \in 0..(Len(LiveRows) - 1) :
       /\ dom = LiveCart(n)
       /\ dom' = LiveCart(n + 1)
  /\ UNCHANGED <<outside, test, previous, op, pc, rowSelector, rowCount, i, texts, items,
                 origin, total, sum, results, totalResult, last, queries>>

NextLive ==
  \/ AddRow
  \/ CallVerifyTotal
  \/ CallVerifySubtotals
  \/ GetTotalPrice
  \/ SelectRows
  \/ ReadName
  \/ ReadPrice
  \/ ReadQuantity
  \/ ReadSubtotal
  \/ PushRow
  \/ CalculateSum
  \/ VerifyItem
  \/ VerifyReturn
  \/ CompareTotal

SpecLive == InitLive /\ [][NextLive]_vars

(***************************************************************************)
(* Claims about the utilities and about ShopPage.                          *)
(***************************************************************************)
Called(fn) == call.fn = fn

\* nothing parseFloat can read is left of the text
Unparsable(text) == ~DecimalPrefix(StripNonNumeric(text)).ok

\* C15, as stated: currency parsing (parseCurrency, and the parse of a
\* price, subtotal or total in CartPage) never throws and returns a number
\* for every text: 0 when what is left after removing every character other
\* than digits and points is empty or unparsable, the value read otherwise,
\* and 12.99 for "$12.99".  The code returns NaN from parseCurrency("") and
\* parseCurrency("abc"), and from both parses for ".".
C15_CurrencyParsing ==
  Called("parseCurrency") \/ Called("parsePrice") =>
    /\ ~call.threw
    /\ ~call.value.nan
    /\ Unparsable(call.args[1]) => call.value = Zero
    /\ ~Unparsable(call.args[1]) =>
         call.value = ParseFloat(StripNonNumeric(call.args[1]))
    /\ call.args[1] = <<"$", "1", "2", ".", "9", "9">> =>
         call.value = ParseFloat(<<"1", "2", ".", "9", "9">>)

\* C17, as stated: isApproximatelyEqual(a, b) with the default epsilon 0.01
\* is true of (a, a) and of (a, a + 0.005), false of (a, a + 0.01), for
\* every currency value a, and the same with its arguments exchanged.  In
\* binary64 a + 0.01 is rounded, and for a = 0.02 the difference of 0.02 and
\* 0.02 + 0.01 is below the binary64 of 0.01, so the code answers true.
C17_ApproximatelyEqual ==
  Called("isApproximatelyEqual") =>
    LET a == call.args[1]
        b == call.args[2]
    IN  /\ a = b => call.value
        /\ b = DAdd(a, HalfCent) \/ a = DAdd(b, HalfCent) => call.value
        /\ b = DAdd(a, Cent) \/ a = DAdd(b, Cent) => ~call.value
        /\ call.value = isApproximatelyEqual(b, a, Cent)

\* the catalog entries whose name contains the text, in the order of the catalog
Containing(part) ==
  {k \in DOMAIN productPrices : Contains(productPrices[k].name, part)}

FirstContaining(part) ==
  CHOOSE k \in Containing(part) : \A j \in Containing(part) : k <= j

\* the catalog entries whose name is the text
Named(productName) ==
  {k \in DOMAIN productPrices : productPrices[k].name = productName}

C20_TestFailsOnMismatch ==
  /\ test.pc \in {"passed", "failed"}
  /\ test.found
  /\ \/ \E k \in DOMAIN test.subtotals : ~test.subtotals[k].isCorrect
     \/ ~test.total.isCorrect
  => test.pc = "failed"

\* the buy button of the page is there to be clicked
ButtonExists(page) == page.button \in {"present", "clickErr"}

\* C21: buyProduct never throws; it returns true exactly when the product is
\* known, its buy button exists, the button was clicked quantity times and
\* the cart count read afterwards is at least the count read before plus
\* quantity; for an unknown product or a missing button it returns false
\* and has clicked nothing, leaving the page as it was.
C21_BuyProductResult ==
  Called("buyProduct") =>
    LET productName == call.args[1]
        quantity    == call.args[2]
        known       == \E k \in DOMAIN productIds : productIds[k].name = productName
        enough      == AtLeast(getCartCount(shop),
                               DAdd(getCartCount(call.before), Number(quantity)))
    IN  /\ ~call.threw
        /\ call.value \in BOOLEAN
        /\ call.value <=>
             known /\ ButtonExists(call.before) /\ call.clicks = quantity /\ enough
        /\ ~known \/ ~ButtonExists(call.before) =>
             ~call.value /\ call.clicks = 0 /\ shop = call.before

\* C21: buyProduct of a known product clicked its button quantity > 0 times,
\* the cart count grew by as much, and it returned true
C21_Witness ==
  /\ Called("buyProduct")
  /\ call.value = TRUE
  /\ call.args[2] > 0
  /\ call.clicks = call.args[2]
  /\ getCartCount(shop) = DAdd(getCartCount(call.before), Number(call.args[2]))

\* C21: buyProduct of a known product clicked its button but the cart count
\* did not grow, and it returned false
C21_WitnessNotCounted ==
  /\ Called("buyProduct")
  /\ call.value = FALSE
  /\ call.args[2] > 0
  /\ call.clicks = call.args[2]

\* C22: after a call of fillContactForm that did not throw, each field whose
\* argument is not empty holds that argument and each field whose argument
\* is empty holds what it held before; when a fill threw, for want of the
\* field on the page, the fields before it are so and those from it on are
\* as they were.
C22_FillContactForm ==
  Called("fillContactForm") =>
    LET stopped(k) == call.args[k] # <<>> /\ call.before[formFields[k]].kind # "present"
        reached(k) == \A j \in 1..(k - 1) : ~stopped(j)
    IN  /\ call.threw <=> \E k \in DOMAIN formFields : stopped(k)
        /\ \A k \in DOMAIN formFields :
             form[formFields[k]] =
               IF call.args[k] # <<>> /\ reached(k) /\ ~stopped(k)
               THEN Present(call.args[k])
               ELSE call.before[formFields[k]]

\* C22: a call with all five arguments of the test went through on a form
\* that held other texts, and the forename, email and message hold them
C22_Witness ==
  /\ Called("fillContactForm")
  /\ ~call.threw
  /\ call.args = TestValues
  /\ \A k \in DOMAIN formFields : call.before[formFields[k]] = Present(Old)
  /\ \A k \in {1, 3, 5} : form[formFields[k]] = Present(TestValues[k])

\* C22: a call with an empty surname left the surname it found
C22_WitnessLeft ==
  /\ Called("fillContactForm")
  /\ ~call.threw
  /\ call.args[1] = TestUser /\ call.args[2] = <<>>
  /\ form[formFields[1]] = Present(TestUser)
  /\ form[formFields[2]] = Present(Old)

\* the place of a row's lookup in the row loop: 1 for the name, 2 for the
\* price, 3 for the quantity, 4 for the subtotal
FieldRank(selector) ==
  IF selector \in Range(productNameSelectors) THEN 1
  ELSE IF selector \in Range(productPriceSelectors) THEN 2
  ELSE IF selector \in Range(productQuantitySelectors) THEN 3
  ELSE 4

\* the place of a query of a row among all lookups of all rows
Rank(q) == 4 * (q.scope - 1) + FieldRank(q.selector)

\* the queries made of the rows, in the order they were made
RowQueries == SelectSeq(queries, LAMBDA q : q.scope > 0)

\* C23: the queries of the rows are made one lookup after the other: the
\* first is of the name of row 1, and each next one belongs to the same
\* lookup as the one before or to the lookup that follows it (name, price,
\* quantity, subtotal, then the name of the next row), so no row is read
\* before the four lookups of the row before it were made, and the lookup
\* that returned last is the one of the latest query.
C23_RowsReadInTurn ==
  LET qs == RowQueries
  IN  /\ qs # <<>> => Rank(qs[1]) = 1
      /\ \A a \in 1..(Len(qs) - 1) : Rank(qs[a + 1]) - Rank(qs[a]) \in {0, 1}
      /\ qs # <<>> /\ Looked =>
           Rank(qs[Len(qs)]) = 4 * (last.scope - 1) + FieldRank(Selectors(last.field)[1])

\* C23: getCartItems returned after the four lookups of each of MaxRows rows
C23_Witness ==
  /\ Returned("getCartItems")
  /\ rowCount = MaxRows
  /\ RowQueries # <<>>
  /\ Rank(RowQueries[Len(RowQueries)]) = 4 * MaxRows

\* the total and the sum of the subtotals that the cart with n rows shows
ShownTotal(n) == ParsePrice(LiveTotals[n + 1].text)

ShownSum(n) ==
  SumOfSubtotals(Zero, [k \in 1..n |-> [subtotal |-> ParsePrice(LiveRows[k][".line-price"].text)]])

\* C24, as stated: the total and the sum of subtotals that verifyTotal
\* reports are those of one state of the cart, also when a row is added
\* while it runs.  verifyTotal reads the total first and the rows later,
\* so a row added in between gives the total of one cart with the subtotals
\* of the next.
C24_OneSnapshot ==
  Returned("verifyTotal") =>
    \E n \in 0..Len(LiveRows) :
      /\ totalResult.total = ShownTotal(n)
      /\ totalResult.sumOfSubtotals = ShownSum(n)

\* no quantity candidate has a match in the row
NoQuantity(row) ==
  \A k \in DOMAIN productQuantitySelectors : ~HasMatch(row, productQuantitySelectors[k])

\* the row shows a name, or a price above 0
NameOrPrice(row) ==
  RowTexts(row).name # <<>> \/ Positive(ParsePrice(RowTexts(row).price))

\* the rows getCartItems went through
RowsRead == IF rowCount = 0 THEN <<>> ELSE dom.rows[rowSelector].rows

\* the items made of row r
ItemsFrom(r) == {j \in DOMAIN items : origin[j] = r - 1}

\* C25, as stated: a row without a quantity input gets quantity 0; it is
\* dropped when it shows no name and no price, and kept when it shows a name
\* or a price, and verifySubtotals then reports it with isCorrect false.
C25_MissingQuantityFlagged ==
  Returned("verifySubtotals") =>
    \A r \in DOMAIN RowsRead :
      NoQuantity(RowsRead[r]) =>
        IF NameOrPrice(RowsRead[r])
        THEN \E j \in ItemsFrom(r) :
               items[j].quantity = Zero /\ ~results[j].isCorrect
        ELSE ItemsFrom(r) = {}

\* C25, amended: such a row is dropped when it shows no name and no price
\* above 0, and is kept with quantity 0 otherwise; verifySubtotals then
\* expects a subtotal of 0, so it reports isCorrect false exactly when the
\* subtotal read from the row is a cent or more away from 0 (or the price or
\* subtotal is not a number), and true for a row that shows no subtotal.
C25_MissingQuantityExpectsZero ==
  Returned("verifySubtotals") =>
    \A r \in DOMAIN RowsRead :
      NoQuantity(RowsRead[r]) =>
        IF NameOrPrice(RowsRead[r])
        THEN \E j \in ItemsFrom(r) :
               /\ items[j].quantity = Zero
               /\ ~items[j].price.nan => results[j].expectedSubtotal = Zero
               /\ results[j].isCorrect <=>
                    ~items[j].price.nan /\ DLess(DAbs(items[j].subtotal), Cent)
        ELSE ItemsFrom(r) = {}

\* C25: a row with a name and a price but no quantity input and no subtotal
\* was kept with quantity 0 and reported with isCorrect true
C25_Witness ==
  /\ Returned("verifySubtotals")
  /\ \E r \in DOMAIN RowsRead :
       /\ NoQuantity(RowsRead[r])
       /\ RowTexts(RowsRead[r]).name = Frog
       /\ Positive(ParsePrice(RowTexts(RowsRead[r]).price))
       /\ \E j \in ItemsFrom(r) : items[j].quantity = Zero /\ results[j].isCorrect

\* C25: a row with no name, no price and no quantity input was dropped
C25_WitnessDropped ==
  /\ Returned("verifySubtotals")
  /\ \E r \in DOMAIN RowsRead :
       /\ NoQuantity(RowsRead[r])
       /\ ~NameOrPrice(RowsRead[r])
       /\ ItemsFrom(r) = {}

\* the text the subtotal lookup reads in the row of item j, and the number
\* it shows
SubtotalText(j) == Lookup("subtotal", ItemRow(j)).value

SubtotalShown(j) == ParseFloat(OrElse(StripNonNumeric(SubtotalText(j)), <<"0">>))

NoSubtotal(row) ==
  \A k \in DOMAIN productSubtotalSelectors : ~HasMatch(row, productSubtotalSelectors[k])

\* C26: the subtotal of every item, and the actualSubtotal of every result
\* of verifySubtotals, is the number parsed from the text read in the item's
\* row, whatever its price and quantity are; it is 0 when the row has no
\* match for any subtotal candidate.
C26_SubtotalIsRead ==
  /\ \A j \in DOMAIN items :
       /\ items[j].subtotal = SubtotalShown(j)
       /\ NoSubtotal(ItemRow(j)) => items[j].subtotal = Zero
  /\ op = "verifySubtotals" =>
       \A j \in DOMAIN results : results[j].actualSubtotal = SubtotalShown(j)

\* C26: a row of price 1.50 and quantity 2 without a subtotal was reported
\* with the subtotal 0
C26_Witness ==
  /\ Returned("verifySubtotals")
  /\ \E j \in DOMAIN results :
       /\ NoSubtotal(ItemRow(j))
       /\ results[j].price = ParseFloat(<<"1", ".", "5", "0">>)
       /\ results[j].quantity = Number(2)
       /\ results[j].actualSubtotal = Zero

\* C26: a row of price 10.99 and quantity 2 showing $21.97 was reported with
\* the subtotal 21.97
C26_WitnessShown ==
  /\ Returned("verifySubtotals")
  /\ \E j \in DOMAIN results :
       /\ results[j].price = ParseFloat(<<"1", "0", ".", "9", "9">>)
       /\ results[j].quantity = Number(2)
       /\ results[j].actualSubtotal = ParseFloat(<<"2", "1", ".", "9", "7">>)


(***************************************************************************)
(* The row loop of getCartItems with its iterations run side by side: each *)
(* row keeps the locals of its own iteration, the lookups of different     *)
(* rows come in any order, and the items are put together by row index.   *)
(* The surface does not change meanwhile.                                  *)
(***************************************************************************)
NextField(field) ==
  IF field = "name" THEN "price"
  ELSE IF field = "price" THEN "quantity"
  ELSE IF field = "quantity" THEN "subtotal"
  ELSE "read"

NoPart == [at |-> "name", texts |-> NoTexts, turn |-> 0]

CallGetCartItemsAnyOrder ==
  /\ Fresh("getCartItemsAnyOrder", "rowsAnyOrder")
  /\ parts' = <<>>
  /\ UNCHANGED <<shop, call, form, test, dom>>

\* getCartItems up to its row loop; every iteration is started
SelectRowsAnyOrder ==
  /\ pc = "rowsAnyOrder"
  /\ LET r == FindRowSelector(dom, cartRowSelectors)
     IN  /\ rowSelector' = r.rowSelector
         /\ rowCount' = r.rowCount
         /\ queries' = queries \o Scoped(0, r.log)
         /\ parts' = [row \in 1..r.rowCount |-> NoPart]
  /\ pc' = "extract"
  /\ UNCHANGED <<shop, call, form, test, previous, dom, op, i, texts, items, origin, total,
                 sum, results, totalResult, last>>

\* the iterations that have come to their end
Finished == {row \in DOMAIN parts : parts[row].at \in {"read", "skipped"}}

\* the next lookup of some row; an error escaping it ends the row's
\* iteration in its catch
ReadAnyRow ==
  /\ pc = "extract"
  /\ \E row \in DOMAIN parts \ Finished :
       LET field == parts[row].at
           found == Lookup(field, dom.rows[rowSelector].rows[row])
       IN  parts' = [parts EXCEPT ![row] =
             IF found.threw
             THEN [at |-> "skipped", texts |-> NoTexts, turn |-> Cardinality(Finished) + 1]
             ELSE [at    |-> NextField(field),
                   texts |-> [parts[row].texts EXCEPT ![field] = found.value],
                   turn  |-> IF field = "subtotal" THEN Cardinality(Finished) + 1 ELSE 0]]
  /\ UNCHANGED <<cart, shop, call, form, test>>

PartItem(row) ==
  CartItem(parts[row].texts.name, parts[row].texts.price, parts[row].texts.quantity,
           parts[row].texts.subtotal)

\* the rows whose iteration pushes an item
Pushing ==
  {row \in DOMAIN parts :
     /\ parts[row].at = "read"
     /\ KeepRow(parts[row].texts.name, PartItem(row).price, PartItem(row).quantity)}

RECURSIVE Ordered(_, _)
Ordered(rows, key) ==
  IF rows = {} THEN <<>>
  ELSE LET first == CHOOSE x \in rows : \A y \in rows : key[x] <= key[y]
       IN  <<first>> \o Ordered(rows \ {first}, key)

\* the pushing rows in the order their iterations ended
TurnOrder == Ordered(Pushing, [row \in DOMAIN parts |-> parts[row].turn])

\* the pushing rows by row index
RowOrder == Ordered(Pushing, [row \in DOMAIN parts |-> row])

Assembled == [k \in DOMAIN RowOrder |-> PartItem(RowOrder[k])]

Assemble ==
  /\ pc = "extract"
  /\ Finished = DOMAIN parts
  /\ items' = Assembled
  /\ origin' = [k \in DOMAIN RowOrder |-> RowOrder[k] - 1]
  /\ pc' = "done"
  /\ UNCHANGED <<outside, test, previous, dom, op, rowSelector, rowCount, i, texts, total,
                 sum, results, totalResult, last, queries>>

NextAnyOrder ==
  \/ CallGetCartItemsAnyOrder
  \/ SelectRowsAnyOrder
  \/ ReadAnyRow
  \/ Assemble
  \/ CallGetCartItems
  \/ SelectRows
  \/ ReadName
  \/ ReadPrice
  \/ ReadQuantity
  \/ ReadSubtotal
  \/ PushRow

SpecAnyOrder == Init /\ [][NextAnyOrder]_vars

\* every row of the page has been read side by side
AllRead == DOMAIN parts = 1..rowCount /\ Finished = DOMAIN parts

\* C27: on a surface that does not change, reading the rows in any order or
\* interleaving and putting the items together by row index gives the
\* sequence sequential getCartItems gives: the items of the rows of the
\* surface, in row order.
C27_AnyOrderSameItems ==
  /\ Returned("getCartItemsAnyOrder") => items = ItemsOf(CartRowsNow)
  /\ Returned("getCartItems") /\ AllRead => items = Assembled

\* C27 witness: the second row was read to its end before the first, both
\* rows gave an item, and sequential getCartItems has returned after it
C27_Witness ==
  /\ Returned("getCartItems")
  /\ AllRead
  /\ Len(items) = 2
  /\ items[1] # items[2]
  /\ Pushing = {1, 2}
  /\ parts[2].turn < parts[1].turn

\* C27 witness: two rows are in the middle of their lookups at once
C27_WitnessInterleaved ==
  /\ pc = "extract"
  /\ \E a, b \in DOMAIN parts :
       /\ a < b
       /\ parts[a].at = "price"
       /\ parts[b].at = "subtotal"


\* a text a number can be read from: it is not empty and has a digit
HasDigit(cell) ==
  /\ cell.kind = "present"
  /\ cell.text # Null
  /\ \E k \in DOMAIN cell.text : IsDigit(cell.text[k])

\* an input holding a count: digits only, at least one
HoldsCount(cell) ==
  /\ cell.kind = "present"
  /\ cell.text # Null
  /\ cell.text # <<>>
  /\ \A k \in DOMAIN cell.text : IsDigit(cell.text[k])

WellFormedRow(row) ==
  /\ row[strictProductName].kind = "present"
  /\ row[strictProductName].text # Null
  /\ row[strictProductName].text # <<>>
  /\ HasDigit(row[strictProductPrice])
  /\ HoldsCount(row[strictProductQuantity])
  /\ HasDigit(row[".line-price"])

\* every '.cart-item' row has its four fields well formed, and the page
\* shows a total
WellFormedCart(surface) ==
  /\ ~surface.rows[strictCartRows].threw
  /\ \A r \in DOMAIN surface.rows[strictCartRows].rows :
       WellFormedRow(surface.rows[strictCartRows].rows[r])
  /\ HasDigit(surface.page[".total"])

\* there is a cart row, or no row selector finds a row
RowsAreCartItems(surface) ==
  \/ surface.rows[strictCartRows].rows # <<>>
  \/ \A s \in DOMAIN surface.rows : surface.rows[s].rows = <<>>

WellFormed(surface) == WellFormedCart(surface) /\ RowsAreCartItems(surface)

\* what the multi-selector CartPage has returned is what the fixed-selector
\* CartPage returns, which does not throw
SameAsStrict ==
  /\ pc # "thrown"
  /\ Returned("getCartItems") =>
       /\ ~StrictCartItems(dom).threw
       /\ items = StrictCartItems(dom).value
  /\ Returned("getTotalPrice") =>
       /\ ~StrictTotalPrice(dom.page).threw
       /\ total = StrictTotalPrice(dom.page).value
  /\ Returned("strictGetTotalPrice") => total = TotalPrice(dom.page, totalPriceSelectors).value
  /\ Returned("verifySubtotals") =>
       /\ ~StrictVerifySubtotals(dom).threw
       /\ results = StrictVerifySubtotals(dom).value
  /\ Returned("verifyTotal") =>
       /\ ~StrictVerifyTotal(dom).threw
       /\ totalResult = StrictVerifyTotal(dom).value

\* C28, as stated: on every surface whose '.cart-item' rows each have one
\* well-formed name, price, quantity and subtotal and whose page has one
\* '.total', both variants return the same items, total, subtotal results
\* and total result.
C28_SameOnEveryCart == WellFormedCart(dom) => SameAsStrict

\* C28, amended: they do so when moreover the surface has a cart row or no
\* row selector of the multi-selector variant finds a row; on a cart without
\* '.cart-item' rows the multi-selector variant takes the rows of its next
\* row selector that finds any.
C28_FlexibleRefinesStrict == WellFormed(dom) => SameAsStrict

\* C28 witness: getCartItems has returned an item on a page without a
\* '.cart-item' row
C28_WitnessOtherRows ==
  /\ WellFormedCart(dom)
  /\ Returned("getCartItems")
  /\ dom.rows[strictCartRows].rows = <<>>
  /\ items # <<>>

\* C28 witness: verifySubtotals has returned on a well-formed cart of two
\* rows, one whose subtotal is right and one whose subtotal is wrong
C28_Witness ==
  /\ WellFormed(dom)
  /\ Returned("verifySubtotals")
  /\ Len(results) = 2
  /\ results[1].isCorrect
  /\ ~results[2].isCorrect

\* C28 witness: verifyTotal has returned on a well-formed cart whose total
\* is not the sum of its subtotals
C28_WitnessTotal ==
  /\ WellFormed(dom)
  /\ Returned("verifyTotal")
  /\ Len(items) = 2
  /\ ~totalResult.isCorrect

\* C28 witness: getCartItems has returned a name trimmed of its white space
\* on a well-formed cart
C28_WitnessTrimmed ==
  /\ WellFormed(dom)
  /\ Returned("getCartItems")
  /\ Len(items) = 1
  /\ dom.rows[strictCartRows].rows[1][strictProductName].text # items[1].name


\* formatCurrency has returned the text of v, and parsing that text and
\* formatting the parse lead back to v and to the text
RoundTrips ==
  /\ parseCurrency(call.value) = call.args[1]
  /\ formatCurrency(parseCurrency(call.value)) = call.value

\* C29: for every currency value v with at most two decimal places, negative
\* ones included, parseCurrency(formatCurrency(v)) = v and
\* formatCurrency(parseCurrency(formatCurrency(v))) = formatCurrency(v).
C29_RoundTrip == Called("formatCurrency") => RoundTrips

\* C29 for the values that are not negative, where the round trip holds
C29_RoundTripFromZeroUp ==
  Called("formatCurrency") /\ ~call.args[1].neg => RoundTrips

\* C29 witness: a negative value has been formatted
C29_WitnessNegative ==
  /\ Called("formatCurrency")
  /\ call.args[1] = DNeg(Cent)
  /\ call.value = <<"$", "-", "0", ".", "0", "1">>
  /\ parseCurrency(call.value) = Cent

=============================================================================
